---------------------------- MODULE Spec2Model ----------------------------
(***************************************************************************)
(* QuantumDrop backend (syspec-drop-backend-api): the upload and claim     *)
(* routes, the BlockDAG ledger service and the IPFS content store, with    *)
(* the envelope encryption they perform.                                   *)
(*                                                                         *)
(* Buffers are sequences of bytes 0..255.  Strings are sequences of        *)
(* character codes: ASCII codes for passphrases, sextet indices 0..63      *)
(* (pad = 64) for base64 text, nibble values 0..15 ('x' = 16) for hex.     *)
(*                                                                         *)
(* The library primitives are modelled by what they do:                    *)
(*   - keccak_256 is a sponge over the input bytes that yields 32 bytes;   *)
(*   - aes-256-gcm is a counter-mode stream cipher (ciphertext = plaintext *)
(*     XOR keystream(key, iv)) with a 16-byte tag, a keyed checksum over   *)
(*     (key, iv, ciphertext); decipher.final() throws when the tag does    *)
(*     not match;                                                          *)
(*   - randomBytes(12) and randomBytes(32) are outputs of a CSPRNG that    *)
(*     never repeats an output (the usual freshness idealisation), while   *)
(*     randomBytes(1) and randomBytes(4) are unconstrained choices.        *)
(***************************************************************************)
EXTENDS Integers, Sequences, FiniteSets, TLC

\* ------------------------------------------------------------------------
\* Bounds of the model
\* ------------------------------------------------------------------------
MaxDrops == 2          \* drop identifiers the ledger can hold
MaxLen == 1            \* longest plaintext, in bytes
MaxClaims == 2         \* claim requests handled in one behaviour
MaxUploads == 2        \* upload requests handled in one behaviour
MaxReqs == 1           \* claim requests in flight at the same time
MaxRequests == 3       \* requests, uploads and claims, handled in one behaviour
MaxFaults == 1         \* failures and alterations injected into one claim

\* ------------------------------------------------------------------------
\* Program constants
\* ------------------------------------------------------------------------
IV_LEN == 12           \* randomBytes(12), subarray(0, 12)
TAG_LEN == 16          \* GCM tag, subarray(12, 28)
HEADER_LEN == 28       \* subarray(28)
KEY_LEN == 32          \* randomBytes(32), keccak_256 digest
WORD_COUNT == 6        \* words in a generated passphrase

\* ------------------------------------------------------------------------
\* Bytes and bit operations
\* ------------------------------------------------------------------------
Byte == 0..255

\* a byte array written out as a sequence
Buf(f) == Tail(<<0>> \o f)

Bit(a, k) == (a \div k) % 2

Xor(a, b) ==
    (((a \div 1) + (b \div 1)) % 2)
    + (2 * (((a \div 2) + (b \div 2)) % 2))
    + (4 * (((a \div 4) + (b \div 4)) % 2))
    + (8 * (((a \div 8) + (b \div 8)) % 2))
    + (16 * (((a \div 16) + (b \div 16)) % 2))
    + (32 * (((a \div 32) + (b \div 32)) % 2))
    + (64 * (((a \div 64) + (b \div 64)) % 2))
    + (128 * (((a \div 128) + (b \div 128)) % 2))

Pow2(k) == CASE k = 0 -> 1 [] k = 1 -> 2 [] k = 2 -> 4 [] k = 3 -> 8
             [] k = 4 -> 16 [] k = 5 -> 32 [] k = 6 -> 64 [] k = 7 -> 128

\* buf with bit `bit` of the byte at (1-based) position pos inverted
FlipBit(buf, pos, bit) ==
    [buf EXCEPT ![pos] = IF Bit(buf[pos], Pow2(bit)) = 1
                         THEN buf[pos] - Pow2(bit) ELSE buf[pos] + Pow2(bit)]

\* Buffer.subarray(start, end) with 0-based, end-exclusive, clamped indices
SubArray(buf, start, end) ==
    LET s == IF start > Len(buf) THEN Len(buf) ELSE start
        e == IF end > Len(buf) THEN Len(buf) ELSE end
    IN  IF e <= s THEN << >> ELSE SubSeq(buf, s + 1, e)

\* Buffer.concat([a, b, c])
Concat3(a, b, c) == a \o b \o c

\* ------------------------------------------------------------------------
\* Text encodings
\* ------------------------------------------------------------------------
\* Buffer.from(str, 'utf-8'): one byte per code below 128, two above
RECURSIVE Utf8(_)
Utf8(str) ==
    IF \A i \in 1..Len(str) : str[i] < 128 THEN str
    ELSE IF Len(str) = 1 THEN
        (IF str[1] < 128 THEN <<str[1]>>
         ELSE <<192 + (str[1] \div 64), 128 + (str[1] % 64)>>)
    ELSE Utf8(SubSeq(str, 1, Len(str) \div 2))
         \o Utf8(SubSeq(str, (Len(str) \div 2) + 1, Len(str)))

\* bytesToHex: two nibbles per byte, high nibble first
BytesToHex(buf) ==
    Buf([k \in 1..(2 * Len(buf)) |->
        IF k % 2 = 1 THEN buf[(k + 1) \div 2] \div 16 ELSE buf[k \div 2] % 16])

HexX == 16                       \* the character 'x'
HexPrefix == <<0, HexX>>         \* the string '0x'

\* str.startsWith('0x')
StartsWith0x(str) == Len(str) >= 2 /\ SubSeq(str, 1, 2) = HexPrefix

\* ethers' bytes32 argument: the bytes written after the '0x' prefix
HexToBytes(hex) ==
    Buf([k \in 1..(Len(hex) \div 2) |-> (hex[(2 * k) - 1] * 16) + hex[2 * k]])

Bytes32Of(hexStr) == HexToBytes(SubSeq(hexStr, 3, Len(hexStr)))

B64Pad == 64                     \* the character '='

\* the element at position i, 0 past the end
At(seq, i) == IF i <= Len(seq) THEN seq[i] ELSE 0

\* buf.toString('base64'): 3 bytes -> 4 sextets, '=' padding at the end
ToBase64(buf) ==
    LET n == Len(buf)
    IN  Buf([k \in 1..(4 * ((n + 2) \div 3)) |->
            LET g == (k - 1) \div 4
                b1 == At(buf, (3 * g) + 1)
                b2 == At(buf, (3 * g) + 2)
                b3 == At(buf, (3 * g) + 3)
            IN  CASE (k - 1) % 4 = 0 -> b1 \div 4
                  [] (k - 1) % 4 = 1 -> ((b1 % 4) * 16) + (b2 \div 16)
                  [] (k - 1) % 4 = 2 ->
                        IF (3 * g) + 2 > n THEN B64Pad
                        ELSE ((b2 % 16) * 4) + (b3 \div 64)
                  [] (k - 1) % 4 = 3 ->
                        IF (3 * g) + 3 > n THEN B64Pad ELSE b3 % 64])

\* the sextets before the first '='
B64Payload(str) ==
    LET pads == {i \in 1..Len(str) : str[i] = B64Pad}
    IN  IF pads = {} THEN str
        ELSE SubSeq(str, 1, (CHOOSE i \in pads : \A j \in pads : i <= j) - 1)

\* 4 sextets -> 3 bytes; a tail of 2 or 3 sextets gives 1 or 2 bytes
B64Bytes(sx) ==
    LET m == Len(sx)
        n == (3 * (m \div 4)) + (IF m % 4 = 2 THEN 1 ELSE IF m % 4 = 3 THEN 2 ELSE 0)
    IN  Buf([k \in 1..n |->
            LET g == (k - 1) \div 3
                s1 == At(sx, (4 * g) + 1)
                s2 == At(sx, (4 * g) + 2)
                s3 == At(sx, (4 * g) + 3)
                s4 == At(sx, (4 * g) + 4)
            IN  CASE (k - 1) % 3 = 0 -> (s1 * 4) + (s2 \div 16)
                  [] (k - 1) % 3 = 1 -> ((s2 % 16) * 16) + (s3 \div 4)
                  [] (k - 1) % 3 = 2 -> ((s3 % 4) * 64) + s4])

\* Buffer.from(str, 'base64')
FromBase64(str) == B64Bytes(B64Payload(str))

\* ------------------------------------------------------------------------
\* Library primitives
\* ------------------------------------------------------------------------
\* keccak_256(bytes): absorb every byte, squeeze 32 bytes
\* absorbing buf[lo..hi] maps a sponge state a to ((a * m) + v) % 32749;
\* each byte b contributes a -> ((a * 31) + b + 7) % 32749
RECURSIVE KeccakAbsorb(_, _, _)
KeccakAbsorb(buf, lo, hi) ==
    IF lo > hi THEN [m |-> 1, v |-> 0]
    ELSE IF lo = hi THEN [m |-> 31, v |-> buf[lo] + 7]
    ELSE LET mid == (lo + hi) \div 2
             l == KeccakAbsorb(buf, lo, mid)
             r == KeccakAbsorb(buf, mid + 1, hi)
         IN  [m |-> (l.m * r.m) % 32749,
              v |-> ((l.v * r.m) + r.v) % 32749]

Keccak256(buf) ==
    LET f == KeccakAbsorb(buf, 1, Len(buf))
        acc == (f.m + f.v) % 32749
        lo == acc % 256
        hi == acc \div 256
    IN  Buf([i \in 1..KEY_LEN |->
            IF i = 1 THEN lo
            ELSE IF i = 2 THEN hi
            ELSE ((lo * i) + (hi * (i + 3)) + (i * i)) % 256])

\* sodium.crypto_generichash(32, bytes) (BLAKE2b): a second sponge
\* each byte b contributes a -> ((a * 37) + b + 11) % 32719
RECURSIVE GenericHashAbsorb(_, _, _)
GenericHashAbsorb(buf, lo, hi) ==
    IF lo > hi THEN [m |-> 1, v |-> 0]
    ELSE IF lo = hi THEN [m |-> 37, v |-> buf[lo] + 11]
    ELSE LET mid == (lo + hi) \div 2
             l == GenericHashAbsorb(buf, lo, mid)
             r == GenericHashAbsorb(buf, mid + 1, hi)
         IN  [m |-> (l.m * r.m) % 32719,
              v |-> ((l.v * r.m) + r.v) % 32719]

GenericHash(buf) ==
    LET f == GenericHashAbsorb(buf, 1, Len(buf))
        acc == ((f.m * 3) + f.v) % 32719
        lo == acc % 256
        hi == acc \div 256
    IN  Buf([i \in 1..KEY_LEN |->
            IF i = 1 THEN lo
            ELSE IF i = 2 THEN hi
            ELSE ((lo * (i + 1)) + (hi * (i + 5)) + (i * i * 3)) % 256])

\* randomBytes(n): the n bytes of the CSPRNG output numbered seed
RandomBytes(n, seed) ==
    Buf([i \in 1..n |-> ((seed * 41) + (i * 17) + 3) % 256])

\* aes-256-gcm keystream byte for position i (counter mode)
GcmKeystream(key, iv, i) ==
    ((key[((i - 1) % KEY_LEN) + 1] * 5) + (iv[((i - 1) % Len(iv)) + 1] * 3)
        + (i * 7) + 89) % 256

GcmCrypt(key, iv, data) ==
    Buf([i \in 1..Len(data) |-> Xor(data[i], GcmKeystream(key, iv, i))])

\* sum of the ciphertext bytes whose position falls on tag lane j
RECURSIVE GcmFold(_, _)
GcmFold(ct, j) ==
    IF j > Len(ct) THEN 0 ELSE ct[j] + GcmFold(ct, j + TAG_LEN)

\* cipher.getAuthTag(): 16 bytes over (key, iv, ciphertext)
GcmTag(key, iv, ct) ==
    Buf([j \in 1..TAG_LEN |->
        (GcmFold(ct, j) + (key[j] * 3) + (key[j + TAG_LEN] * 5)
            + (iv[((j - 1) % Len(iv)) + 1] * 7)
            + (Len(ct) * 11) + (j * 13)) % 256])

\* createCipheriv('aes-256-gcm', key, iv) ... update/final/getAuthTag
GcmEncrypt(key, iv, data) ==
    LET ct == GcmCrypt(key, iv, data)
    IN  [encrypted |-> ct, authTag |-> GcmTag(key, iv, ct)]

\* tag lengths setAuthTag accepts for GCM
GcmTagLengths == {4, 8, 12, 13, 14, 15, 16}

\* createDecipheriv('aes-256-gcm', key, iv), setAuthTag, update, final:
\* throws (ok = FALSE) on a bad key or iv length, on a bad tag length and
\* when the tag does not match; the bytes are delivered only otherwise
GcmDecrypt(key, iv, authTag, ct) ==
    IF Len(key) # KEY_LEN \/ Len(iv) = 0 THEN [ok |-> FALSE, data |-> << >>]
    ELSE IF Len(authTag) \notin GcmTagLengths THEN [ok |-> FALSE, data |-> << >>]
    ELSE IF SubSeq(GcmTag(key, iv, ct), 1, Len(authTag)) # authTag
         THEN [ok |-> FALSE, data |-> << >>]
    ELSE [ok |-> TRUE, data |-> GcmCrypt(key, iv, ct)]

\* ------------------------------------------------------------------------
\* Route helpers (upload.route.ts, claim.route.ts)
\* ------------------------------------------------------------------------
Dash == 45                       \* the character '-'

Words == <<
    <<113, 117, 97, 110, 116, 117, 109>>,               \* quantum
    <<115, 101, 99, 117, 114, 101>>,                    \* secure
    <<100, 114, 111, 112>>,                             \* drop
    <<97, 110, 111, 110, 121, 109, 111, 117, 115>>,     \* anonymous
    <<101, 110, 99, 114, 121, 112, 116, 101, 100>>,     \* encrypted
    <<98, 108, 111, 99, 107, 100, 97, 103>>,            \* blockdag
    <<119, 104, 105, 115, 116, 108, 101>>,              \* whistle
    <<98, 108, 111, 119>>,                              \* blow
    <<115, 97, 102, 101>>,                              \* safe
    <<100, 97, 116, 97>>,                               \* data
    <<112, 114, 105, 118, 97, 99, 121>>,                \* privacy
    <<102, 114, 101, 101, 100, 111, 109>>,              \* freedom
    <<99, 114, 121, 112, 116, 111>>,                    \* crypto
    <<115, 104, 105, 101, 108, 100>>,                   \* shield
    <<103, 117, 97, 114, 100, 105, 97, 110>>,           \* guardian
    <<118, 97, 117, 108, 116>>,                         \* vault
    <<108, 111, 99, 107>>,                              \* lock
    <<107, 101, 121>> >>                                \* key

\* the value of randomBytes(1)[0] the loop tests for with byte !== undefined
Undefined == 0 - 1

\* mutant: the byte is reduced by one more than the length of the list
randomIndexWide(byte) == byte % (Len(Words) + 1)

\* const randomIndex = byte % words.length
randomIndex(byte) == byte % Len(Words)

\* the loop of generatePassphrase over the six bytes randomBytes(1)[0]
\* byte is undefined where the buffer has no element 0; words[i] is
\* undefined outside the list; either way the word is left out
RECURSIVE PickWords(_)
PickWords(bytes) ==
    IF bytes = << >> THEN << >>
    ELSE LET byte == Head(bytes)
         IN  (IF byte # Undefined
                 THEN IF (randomIndex(byte) + 1) \in DOMAIN Words
                         THEN <<Words[randomIndex(byte) + 1]>> ELSE << >>
                 ELSE << >>)
             \o PickWords(Tail(bytes))

\* passphrase.join('-')
RECURSIVE JoinDash(_)
JoinDash(ws) ==
    IF ws = << >> THEN << >>
    ELSE IF Len(ws) = 1 THEN ws[1]
    ELSE ws[1] \o <<Dash>> \o JoinDash(Tail(ws))

generatePassphrase(bytes) ==
    JoinDash(PickWords(SubSeq(bytes, 1, WORD_COUNT)))

\* lib/encryption.ts: the commitment of the browser side
generateZKProof(passphrase) == BytesToHex(GenericHash(Utf8(passphrase)))

verifyZKProof(passphrase, commitment) ==
    BytesToHex(GenericHash(Utf8(passphrase))) = commitment

\* bytesToHex(keccak_256(Buffer.from(passphrase, 'utf-8'))) in the upload handler
uploadPassphraseHash(passphrase) == BytesToHex(Keccak256(Utf8(passphrase)))

\* mutant: the hex text of the passphrase bytes, not of their digest
claimPassphraseHashPlain(passphrase) == BytesToHex(Utf8(passphrase))

\* the same expression in the claim handler
claimPassphraseHash(passphrase) == BytesToHex(Keccak256(Utf8(passphrase)))

\* the KEK of encryptSymmetricKey
uploadKek(passphrase) == Keccak256(Utf8(passphrase))

\* mutant: the KEK taken from the hex text of the digest
claimKekOfHexText(passphrase) ==
    Keccak256(BytesToHex(Keccak256(Utf8(passphrase))))

\* the KEK of decryptSymmetricKey
claimKek(passphrase) == Keccak256(Utf8(passphrase))

\* mutant: the IV drawn once and used for every file
encryptFileStaticIv(fileBuffer, keySeed, ivSeed) ==
    LET key == RandomBytes(KEY_LEN, keySeed)
        iv == RandomBytes(IV_LEN, 0)
        c == GcmEncrypt(key, iv, fileBuffer)
    IN  [encryptedData |-> c.encrypted, iv |-> iv, authTag |-> c.authTag,
         key |-> key]

encryptFile(fileBuffer, keySeed, ivSeed) ==
    LET key == RandomBytes(KEY_LEN, keySeed)
        iv == RandomBytes(IV_LEN, ivSeed)
        c == GcmEncrypt(key, iv, fileBuffer)
    IN  [encryptedData |-> c.encrypted, iv |-> iv, authTag |-> c.authTag,
         key |-> key]

\* Buffer.concat([iv, authTag, encryptedData]) of the upload handler
packFile(iv, authTag, encryptedData) == Concat3(iv, authTag, encryptedData)

\* result: base64 is the returned string,
\* Buffer.concat([iv, authTag, encryptedKey]).toString('base64'); the other
\* fields are the locals kek, iv, authTag and encryptedKey of the call
encryptSymmetricKey(symmetricKey, passphrase, ivSeed) ==
    LET kek == uploadKek(passphrase)
        iv == RandomBytes(IV_LEN, ivSeed)
        c == GcmEncrypt(kek, iv, symmetricKey)
        combined == Concat3(iv, c.authTag, c.encrypted)
    IN  [base64 |-> ToBase64(combined), kek |-> kek, iv |-> iv,
         authTag |-> c.authTag, encryptedKey |-> c.encrypted]

\* mutant: the tag slice ends one byte early
unpackShortTag(combined) ==
    [iv |-> SubArray(combined, 0, IV_LEN),
     authTag |-> SubArray(combined, IV_LEN, HEADER_LEN - 1),
     data |-> SubArray(combined, HEADER_LEN, Len(combined))]

\* the three slices both decrypt functions take
unpack(combined) ==
    [iv |-> SubArray(combined, 0, IV_LEN),
     authTag |-> SubArray(combined, IV_LEN, HEADER_LEN),
     data |-> SubArray(combined, HEADER_LEN, Len(combined))]

\* mutant: the key bytes are returned without decipher.final()
decryptSymmetricKeyUnverified(encryptedSymKey, passphrase) ==
    LET u == unpack(FromBase64(encryptedSymKey))
        kek == claimKek(passphrase)
    IN  [ok |-> TRUE, data |-> GcmCrypt(kek, u.iv, u.data), kek |-> kek]

\* result: ok = FALSE when the function throws, data is the returned key;
\* kek is the local of the call
decryptSymmetricKey(encryptedSymKey, passphrase) ==
    LET combined == FromBase64(encryptedSymKey)
        u == unpack(combined)
        kek == claimKek(passphrase)
        d == GcmDecrypt(kek, u.iv, u.authTag, u.data)
    IN  [ok |-> d.ok, data |-> d.data, kek |-> kek]

\* mutant: the tag is sliced off but never verified
decryptFileUnverified(encryptedFile, symmetricKey) ==
    LET u == unpack(encryptedFile)
    IN  [ok |-> TRUE, data |-> GcmCrypt(symmetricKey, u.iv, u.data)]

decryptFile(encryptedFile, symmetricKey) ==
    LET u == unpack(encryptedFile)
    IN  GcmDecrypt(symmetricKey, u.iv, u.authTag, u.data)

\* String.includes on texts kept as word sequences
Includes(text, pat) ==
    \E i \in 0..(Len(text) - Len(pat)) :
        SubSeq(text, i + 1, i + Len(pat)) = pat

\* ------------------------------------------------------------------------
\* Texts (word sequences) and responses
\* ------------------------------------------------------------------------
TInvalidPassphrase == <<"Invalid", "passphrase">>
TNotExist == <<"not", "exist">>
TNotActive == <<"not", "active">>
TInactive == <<"inactive">>
TDropDoesNotExist == <<"Drop", "does", "not", "exist">>
TDropIsNotActive == <<"Drop", "is", "not", "active">>
TDropNotFound == <<"Drop", "not", "found">>
TDeactivated == <<"Drop", "has", "been", "deactivated", "by", "owner">>
TClaimTxFailed == <<"Claim", "transaction", "failed:">>
TFetchFailed == <<"Failed", "to", "fetch", "file", "from", "IPFS:">>
TUploadFailed == <<"Failed", "to", "upload", "file", "to", "IPFS:">>
TCreateFailed == <<"BlockDAG", "transaction", "failed:">>
TKeyNotAvailable == <<"Encrypted", "key", "not", "available", "from", "contract">>
TInternal == <<"Internal", "server", "error">>
TReverted == <<"execution", "reverted:">>

\* error.message of a failed RPC call and of a failed gateway request
RpcErrorTexts == {<<"network", "timeout">>}
NonceUsed == <<"nonce", "has", "already", "been", "used">>
GatewayErrorTexts == {<<"Failed", "to", "fetch:", "504", "Gateway", "Timeout">>}

\* revert reasons of the contract
RevertInvalidPassphrase == TReverted \o <<"Invalid", "passphrase">>
RevertNotActive == TReverted \o <<"Drop", "not", "active">>
RevertMissing == TReverted \o <<"Drop", "missing">>
RevertExists == TReverted \o <<"Drop", "exists">>

NoResp == [status |-> 0, code |-> "", error |-> << >>, file |-> FALSE,
           body |-> << >>]

ErrorResp(status, code, error) ==
    [status |-> status, code |-> code, error |-> error, file |-> FALSE,
     body |-> << >>]

FileResp(decryptedFile) ==
    [status |-> 200, code |-> "OK", error |-> << >>, file |-> TRUE,
     body |-> decryptedFile]

\* ------------------------------------------------------------------------
\* The ledger contract
\* ------------------------------------------------------------------------
DropIds == 1..MaxDrops

NoDrop == [exists |-> FALSE, ipfsHash |-> 0, encryptedSymKey |-> << >>,
           passphraseHash |-> << >>, isActive |-> FALSE, claimed |-> FALSE,
           claimCount |-> 0]

\* createDrop(dropId, ipfsHash, encryptedSymKey, passphraseHash)
ContractCreateDrop(led, dropId, ipfsHash, encryptedSymKey, hash32) ==
    IF led[dropId].exists
    THEN [ok |-> FALSE, message |-> RevertExists, ledger |-> led]
    ELSE [ok |-> TRUE, message |-> << >>,
          ledger |-> [led EXCEPT ![dropId] =
              [exists |-> TRUE, ipfsHash |-> ipfsHash,
               encryptedSymKey |-> encryptedSymKey, passphraseHash |-> hash32,
               isActive |-> TRUE, claimed |-> FALSE, claimCount |-> 0]]]

\* mutant: the first claim burns the drop (the V1 policy)
ContractClaimDropBurning(led, dropId, hash32) ==
    IF ~led[dropId].exists
    THEN [ok |-> FALSE, message |-> RevertMissing, ledger |-> led]
    ELSE IF ~led[dropId].isActive
    THEN [ok |-> FALSE, message |-> RevertNotActive, ledger |-> led]
    ELSE IF led[dropId].passphraseHash # hash32
    THEN [ok |-> FALSE, message |-> RevertInvalidPassphrase, ledger |-> led]
    ELSE [ok |-> TRUE, message |-> << >>,
          ledger |-> [led EXCEPT ![dropId].claimed = TRUE,
                                 ![dropId].claimCount = @ + 1,
                                 ![dropId].isActive = FALSE]]

\* mutant: an accepted claim leaves the record as it was
ContractClaimDropUncounted(led, dropId, hash32) ==
    IF ~led[dropId].exists
    THEN [ok |-> FALSE, message |-> RevertMissing, ledger |-> led]
    ELSE IF ~led[dropId].isActive
    THEN [ok |-> FALSE, message |-> RevertNotActive, ledger |-> led]
    ELSE IF led[dropId].passphraseHash # hash32
    THEN [ok |-> FALSE, message |-> RevertInvalidPassphrase, ledger |-> led]
    ELSE [ok |-> TRUE, message |-> << >>, ledger |-> led]

\* mutant: the contract does not test isActive in claimDrop
ContractClaimDropNoActiveTest(led, dropId, hash32) ==
    IF ~led[dropId].exists
    THEN [ok |-> FALSE, message |-> RevertMissing, ledger |-> led]
    ELSE IF led[dropId].passphraseHash # hash32
    THEN [ok |-> FALSE, message |-> RevertInvalidPassphrase, ledger |-> led]
    ELSE [ok |-> TRUE, message |-> << >>,
          ledger |-> [led EXCEPT ![dropId].claimed = TRUE,
                                 ![dropId].claimCount = @ + 1]]

\* claimDrop(dropId, passphraseHash)
ContractClaimDrop(led, dropId, hash32) ==
    IF ~led[dropId].exists
    THEN [ok |-> FALSE, message |-> RevertMissing, ledger |-> led]
    ELSE IF ~led[dropId].isActive
    THEN [ok |-> FALSE, message |-> RevertNotActive, ledger |-> led]
    ELSE IF led[dropId].passphraseHash # hash32
    THEN [ok |-> FALSE, message |-> RevertInvalidPassphrase, ledger |-> led]
    ELSE [ok |-> TRUE, message |-> << >>,
          ledger |-> [led EXCEPT ![dropId].claimed = TRUE,
                                 ![dropId].claimCount = @ + 1]]

\* ------------------------------------------------------------------------
\* BlockDAGService and the claim route's error mapping
\* ------------------------------------------------------------------------
\* mutant: the prefix is added without looking
With0xAlways(passphraseHash) == HexPrefix \o passphraseHash

\* passphraseHash.startsWith('0x') ? passphraseHash : `0x${passphraseHash}`
With0x(passphraseHash) ==
    IF StartsWith0x(passphraseHash) THEN passphraseHash
    ELSE HexPrefix \o passphraseHash

\* mutant: the schema puts no lower bound on the passphrase
claimSchemaAny(passphrase) == TRUE

\* claimSchema: passphrase is a string with minLength 1
claimSchemaOk(passphrase) == Len(passphrase) >= 1

\* uploadSchema: file is a string with minLength 1
uploadSchemaOk(file) == Len(file) >= 1

\* uint8ArrayToBase64 of the web client: '' for no bytes, btoa otherwise
uint8ArrayToBase64(data) == IF Len(data) = 0 THEN << >> ELSE ToBase64(data)

\* the catch (claimError) branch of BlockDAGService.claimDrop
serviceClaimError(message) ==
    IF Includes(message, TInvalidPassphrase) THEN TInvalidPassphrase
    ELSE IF Includes(message, TInactive) THEN TDropIsNotActive
    ELSE TClaimTxFailed \o message

\* mutant: the passphrase test looks for the text in lower case
routeClaimFailureLowerCase(error) ==
    IF Includes(error, <<"invalid", "passphrase">>)
        THEN ErrorResp(401, "INVALID_PASSPHRASE", TInvalidPassphrase)
    ELSE IF Includes(error, TNotExist)
        THEN ErrorResp(404, "DROP_NOT_FOUND", TDropNotFound)
    ELSE IF Includes(error, TNotActive)
        THEN ErrorResp(403, "DROP_INACTIVE", TDeactivated)
    ELSE ErrorResp(500, "CLAIM_FAILED", error)

\* mutant: the route has no branch for a drop that is not active
routeClaimFailureNoInactive(error) ==
    IF Includes(error, TInvalidPassphrase)
        THEN ErrorResp(401, "INVALID_PASSPHRASE", TInvalidPassphrase)
    ELSE IF Includes(error, TNotExist)
        THEN ErrorResp(404, "DROP_NOT_FOUND", TDropNotFound)
    ELSE ErrorResp(500, "CLAIM_FAILED", error)

\* mutant: the text is tested for 'not exist' first
routeClaimFailureNotExistFirst(error) ==
    IF Includes(error, TNotExist)
        THEN ErrorResp(404, "DROP_NOT_FOUND", TDropNotFound)
    ELSE IF Includes(error, TInvalidPassphrase)
        THEN ErrorResp(401, "INVALID_PASSPHRASE", TInvalidPassphrase)
    ELSE IF Includes(error, TNotActive)
        THEN ErrorResp(403, "DROP_INACTIVE", TDeactivated)
    ELSE ErrorResp(500, "CLAIM_FAILED", error)

\* the route's response to a failed claimResult
routeClaimFailure(error) ==
    IF Includes(error, TInvalidPassphrase)
        THEN ErrorResp(401, "INVALID_PASSPHRASE", TInvalidPassphrase)
    ELSE IF Includes(error, TNotExist)
        THEN ErrorResp(404, "DROP_NOT_FOUND", TDropNotFound)
    ELSE IF Includes(error, TNotActive)
        THEN ErrorResp(403, "DROP_INACTIVE", TDeactivated)
    ELSE ErrorResp(500, "CLAIM_FAILED", error)

\* ------------------------------------------------------------------------
\* GET /api/status/:dropId
\* ------------------------------------------------------------------------
TAlreadyClaimed == <<"Drop", "already", "claimed">>
TAvailable == <<"Drop", "available", "for", "claim">>
TDropDeactivated == <<"Drop", "deactivated">>
TRetrieveFailed == <<"Failed", "to", "retrieve", "drop:">>

\* asked is the dropId of the request; fields are the names of the
\* properties of the body sent
NoStatus == [status |-> 0, code |-> "", asked |-> 0, fields |-> {},
             ipfsHash |-> 0, isActive |-> FALSE, claimed |-> FALSE,
             message |-> << >>]

\* BlockDAGService.getDrop: the contract read and the metadata built from it
serviceGetDrop(led, dropId, rpcOk) ==
    IF ~rpcOk
    THEN [success |-> FALSE,
          error |-> TRetrieveFailed \o (CHOOSE m \in RpcErrorTexts : TRUE),
          data |-> NoDrop]
    ELSE IF ~led[dropId].exists
    THEN [success |-> FALSE, error |-> TRetrieveFailed \o RevertMissing,
          data |-> NoDrop]
    ELSE [success |-> TRUE, error |-> << >>,
          data |-> [NoDrop EXCEPT
                      !.exists = TRUE,
                      !.ipfsHash = led[dropId].ipfsHash,
                      !.encryptedSymKey = led[dropId].encryptedSymKey,
                      !.isActive = led[dropId].isActive,
                      !.claimed = led[dropId].claimed]]

\* mutant: the message looks at isActive before claimed
statusResponseActiveFirst(dropId, dropResult) ==
    IF ~dropResult.success
    THEN [NoStatus EXCEPT !.status = 404, !.code = "DROP_NOT_FOUND",
                          !.asked = dropId,
                          !.fields = {"success", "error", "code"},
                          !.message = TDropNotFound]
    ELSE LET drop == dropResult.data
         IN  [status |-> 200, code |-> "OK", asked |-> dropId,
              fields |-> {"success", "dropId", "ipfsHash", "owner", "isActive",
                          "claimed", "createdAt", "explorerUrl", "message"},
              ipfsHash |-> drop.ipfsHash, isActive |-> drop.isActive,
              claimed |-> drop.claimed,
              message |-> IF drop.isActive THEN TAvailable
                          ELSE IF drop.claimed THEN TAlreadyClaimed
                          ELSE TDropDeactivated]

\* the handler of GET /:dropId from the result of getDrop on
statusResponse(dropId, dropResult) ==
    IF ~dropResult.success
    THEN [NoStatus EXCEPT !.status = 404, !.code = "DROP_NOT_FOUND",
                          !.asked = dropId,
                          !.fields = {"success", "error", "code"},
                          !.message = TDropNotFound]
    ELSE LET drop == dropResult.data
         IN  [status |-> 200, code |-> "OK", asked |-> dropId,
              fields |-> {"success", "dropId", "ipfsHash", "owner", "isActive",
                          "claimed", "createdAt", "explorerUrl", "message"},
              ipfsHash |-> drop.ipfsHash, isActive |-> drop.isActive,
              claimed |-> drop.claimed,
              message |-> IF drop.claimed THEN TAlreadyClaimed
                          ELSE IF drop.isActive THEN TAvailable
                          ELSE TDropDeactivated]

\* ------------------------------------------------------------------------
\* The web client: claimDrop of the API client and the receiver page
\* ------------------------------------------------------------------------
\* file names, file types and the receiver's drop ids are sequences of
\* one-character strings
DotBin == <<".", "b", "i", "n">>
DropDash == <<"d", "r", "o", "p", "-">>

\* String.endsWith
EndsWith(str, suffix) ==
    /\ Len(str) >= Len(suffix)
    /\ SubSeq(str, Len(str) - Len(suffix) + 1, Len(str)) = suffix

\* String.toLowerCase over the letters that occur
LowerChar(c) ==
    CASE c = "B" -> "b" [] c = "I" -> "i" [] c = "N" -> "n"
      [] c = "T" -> "t" [] c = "X" -> "x" [] OTHER -> c

ToLower(str) == [i \in 1..Len(str) |-> LowerChar(str[i])]

\* String.trim
RECURSIVE TrimStart(_)
TrimStart(str) ==
    IF str # << >> /\ Head(str) = " " THEN TrimStart(Tail(str)) ELSE str

RECURSIVE TrimEnd(_)
TrimEnd(str) ==
    IF str # << >> /\ str[Len(str)] = " "
    THEN TrimEnd(SubSeq(str, 1, Len(str) - 1)) ELSE str

Trim(str) == TrimEnd(TrimStart(str))

\* replace(/^\.+/, "")
RECURSIVE StripLeadingDots(_)
StripLeadingDots(str) ==
    IF str # << >> /\ Head(str) = "." THEN StripLeadingDots(Tail(str)) ELSE str

\* replace(/\.[^.]+$/, ""): the last dot and what follows it, when
\* something follows it
RemoveExtension(str) ==
    LET dots == {i \in 1..Len(str) : str[i] = "."}
        last == IF dots = {} THEN 0
                ELSE CHOOSE i \in dots : \A j \in dots : j <= i
    IN  IF last = 0 \/ last = Len(str) THEN str ELSE SubSeq(str, 1, last - 1)

\* replace(/\.bin$/, replacement)
ReplaceDotBin(str, replacement) ==
    IF EndsWith(str, DotBin)
    THEN SubSeq(str, 1, Len(str) - Len(DotBin)) \o replacement ELSE str

\* String.substring(0, n)
Substring(str, n) == SubSeq(str, 1, IF Len(str) < n THEN Len(str) ELSE n)

\* the backend's name for the file: `drop-${dropId.substring(0, 8)}.${ext}`
serverFileName(dropId, ext) ==
    DropDash \o Substring(dropId, 8) \o <<".">> \o ext

\* cleanFileName of claimDrop in the API client
clientFileName(dropId, fileName, fileType) ==
    LET sanitizedFileType == StripLeadingDots(Trim(fileType))
        normalizedExtension == <<".">> \o sanitizedFileType
        fallback == DropDash \o Substring(dropId, 12)
        named == IF Trim(fileName) = << >> THEN fallback ELSE Trim(fileName)
        aligned ==
            IF ~EndsWith(ToLower(named), ToLower(normalizedExtension))
            THEN (IF \E i \in 1..Len(named) : named[i] = "."
                     THEN RemoveExtension(named) ELSE named)
                 \o normalizedExtension
            ELSE named
        cleaned == IF sanitizedFileType # << >>
                   THEN ReplaceDotBin(aligned, normalizedExtension)
                   ELSE ReplaceDotBin(named, << >>)
    IN  IF EndsWith(cleaned, DotBin) THEN fallback ELSE cleaned

\* result of claimDrop of the API client on a response of POST /api/claim:
\* thrown when the response is not ok or has no file content
clientClaimDrop(dropId, response) ==
    IF ~response.ok \/ ~response.hasContent
    THEN [thrown |-> TRUE, fileName |-> << >>]
    ELSE [thrown |-> FALSE,
          fileName |-> clientFileName(dropId, response.fileName,
                                      response.fileType)]

\* isValidPassphrase of lib/utils.ts
isValidPassphrase(passphrase) == Len(passphrase) >= 8

\* mutant: the page has no test of the name
pageRefusesNothing(fileName) == FALSE

\* the safety check of handleClaim: fileName.endsWith(".bin")
pageRefuses(fileName) == EndsWith(fileName, DotBin)

\* what the receiver types as Drop ID: nothing, an id the upload handler
\* made, an id of sixteen characters, an id given to the contract directly
RxDropIds ==
    {<< >>,
     <<"a", "b", "1", "2", "c", "d", "3", "4">>,
     <<"a", "b", "1", "2", "c", "d", "3", "4", "e", "f", "5", "6", ".", "b",
       "i", "n">>,
     <<"x", ".", "b", "i", "n">>}

\* the ext values of detectFileType that occur
FileTypes == {<<"b", "i", "n">>, <<"t", "x", "t">>, <<"p", "d", "f">>}

\* responses of POST /api/claim?format=json the client may get for dropId:
\* an error, the backend's body for each file type, with content or (an
\* empty file) without, and bodies without fileType
ApiResponses(dropId) ==
    {[ok |-> FALSE, hasContent |-> FALSE, fileName |-> << >>,
      fileType |-> << >>]}
    \cup {[ok |-> TRUE, hasContent |-> c,
           fileName |-> serverFileName(dropId, ext), fileType |-> ext] :
            ext \in FileTypes, c \in BOOLEAN}
    \cup {[ok |-> TRUE, hasContent |-> TRUE, fileName |-> n,
           fileType |-> << >>] :
            n \in {<< >>, <<"a", ".", "b", "i", "n">>,
                   <<"a", ".", "B", "I", "N">>,
                   <<"a", ".", "b", "i", "n", ".", "b", "i", "n">>}}
    \cup {[ok |-> TRUE, hasContent |-> TRUE,
           fileName |-> <<"a", ".", "b", "i", "n">>,
           fileType |-> <<" ", ".", "T", "X", "T">>]}

\* claimState, the Drop ID field, the last toast, the name handleClaim got
\* from claimDrop (got: it got one), and the names handed to
\* createDownloadableFile so far
IdlePage == [claimState |-> "idle", dropId |-> << >>, toast |-> "",
             got |-> FALSE, fileName |-> << >>, downloads |-> {}]

\* ------------------------------------------------------------------------
\* Inputs of the model
\* ------------------------------------------------------------------------
Sample == <<104, 233, 0, 108, 111>>

Plaintexts == {SubSeq(Sample, 1, n) : n \in 0..MaxLen}

\* request bodies of POST /api/upload: what the web client sends for each
\* file, '' for the empty one, and '=' (decodes to the empty buffer)
UploadFiles == {uint8ArrayToBase64(p) : p \in Plaintexts} \cup {<<B64Pad>>}

\* the six random bytes generatePassphrase may draw
PassphraseDraws == {<<0, 1, 2, 3, 4, 5>>, <<18, 1, 2, 3, 4, 255>>}

WrongGuess == <<119, 114, 111, 110, 103, 45, 103, 117, 101, 115, 115>>

ClaimPassphrases == {generatePassphrase(b) : b \in PassphraseDraws} \cup {WrongGuess}

\* the passphrase field of a body of POST /api/claim: one of the above or ''
ClaimInputs == ClaimPassphrases \cup {<< >>}

\* alterations of a stored key envelope (base64 text) that a ledger read may
\* deliver: nothing, 36 of its 80 characters (27 bytes), one flipped bit in
\* a character of the tag or of the wrapped key
KeyTamperPos == {17, 38}
KeyShortLens == {36}

KeyVariants(stored) ==
    {[t |-> "none", v |-> stored], [t |-> "empty", v |-> << >>]}
    \cup {[t |-> "short", v |-> SubSeq(stored, 1, n)] :
            n \in KeyShortLens \cap (1..Len(stored))}
    \cup {[t |-> "flip", v |-> FlipBit(stored, pos, 0)] :
            pos \in KeyTamperPos \cap (1..Len(stored))}

\* alterations of a stored file envelope that the gateway may deliver
TamperBits == {0, 7}
FileTamperPos == {1, 13, 28, 29}
FileShortLens == {0, 20, 27}

Region(pos) ==
    IF pos <= IV_LEN THEN "nonce" ELSE IF pos <= HEADER_LEN THEN "tag" ELSE "ct"

FileVariants(stored) ==
    {[t |-> "none", v |-> stored]}
    \cup {[t |-> "short", v |-> SubArray(stored, 0, n)] : n \in FileShortLens}
    \cup {[t |-> Region(pos), v |-> FlipBit(stored, pos, bit)] :
            pos \in FileTamperPos \cap (1..Len(stored)), bit \in TamperBits}

\* ------------------------------------------------------------------------
\* Handler steps
\* ------------------------------------------------------------------------
\* steps 3 to 7 of the claim handler, from the result of fetchFile on; k is
\* the result of decryptSymmetricKey(encryptedSymKey, passphrase) of step 5
\* mutant: a failed file decryption is tried a second time
claimAfterFetchRetrying(encryptedSymKey, k, fileResult) ==
    IF ~fileResult.success
    THEN [resp |-> ErrorResp(500, "IPFS_FETCH_FAILED", fileResult.error),
          stage |-> "fetch", keyTried |-> FALSE, fileTried |-> FALSE,
          steps |-> <<"fetchFile">>]
    ELSE IF encryptedSymKey = << >>
    THEN [resp |-> ErrorResp(500, "KEY_NOT_AVAILABLE", TKeyNotAvailable),
          stage |-> "keycheck", keyTried |-> FALSE, fileTried |-> FALSE,
          steps |-> <<"fetchFile", "keycheck">>]
    ELSE IF ~k.ok
    THEN [resp |-> ErrorResp(500, "CLAIM_ERROR", TInternal),
          stage |-> "unwrap", keyTried |-> TRUE, fileTried |-> FALSE,
          steps |-> <<"fetchFile", "keycheck", "unwrap">>]
    ELSE LET f == decryptFile(fileResult.data, k.data)
         IN  IF ~f.ok
             THEN [resp |-> ErrorResp(500, "CLAIM_ERROR", TInternal),
                   stage |-> "decrypt", keyTried |-> TRUE, fileTried |-> TRUE,
                   steps |-> <<"fetchFile", "keycheck", "unwrap", "decrypt",
                               "decrypt">>]
             ELSE [resp |-> FileResp(f.data), stage |-> "respond",
                   keyTried |-> TRUE, fileTried |-> TRUE,
                   steps |-> <<"fetchFile", "keycheck", "unwrap", "decrypt",
                               "detect", "respond">>]

\* mutant: the key envelope is looked at before the result of fetchFile
claimAfterFetchKeyFirst(encryptedSymKey, k, fileResult) ==
    IF encryptedSymKey = << >>
    THEN [resp |-> ErrorResp(500, "KEY_NOT_AVAILABLE", TKeyNotAvailable),
          stage |-> "keycheck", keyTried |-> FALSE, fileTried |-> FALSE,
          steps |-> <<"keycheck">>]
    ELSE IF ~fileResult.success
    THEN [resp |-> ErrorResp(500, "IPFS_FETCH_FAILED", fileResult.error),
          stage |-> "fetch", keyTried |-> FALSE, fileTried |-> FALSE,
          steps |-> <<"keycheck", "fetchFile">>]
    ELSE IF ~k.ok
    THEN [resp |-> ErrorResp(500, "CLAIM_ERROR", TInternal),
          stage |-> "unwrap", keyTried |-> TRUE, fileTried |-> FALSE,
          steps |-> <<"keycheck", "fetchFile", "unwrap">>]
    ELSE LET f == decryptFile(fileResult.data, k.data)
         IN  IF ~f.ok
             THEN [resp |-> ErrorResp(500, "CLAIM_ERROR", TInternal),
                   stage |-> "decrypt", keyTried |-> TRUE, fileTried |-> TRUE,
                   steps |-> <<"keycheck", "fetchFile", "unwrap", "decrypt">>]
             ELSE [resp |-> FileResp(f.data), stage |-> "respond",
                   keyTried |-> TRUE, fileTried |-> TRUE,
                   steps |-> <<"keycheck", "fetchFile", "unwrap", "decrypt",
                               "detect", "respond">>]

\* steps is what the handler did, in order: the call of fetchFile, the test
\* of the key envelope, decryptSymmetricKey, decryptFile, detectFileType,
\* the reply
claimAfterFetch(encryptedSymKey, k, fileResult) ==
    IF ~fileResult.success
    THEN [resp |-> ErrorResp(500, "IPFS_FETCH_FAILED", fileResult.error),
          stage |-> "fetch", keyTried |-> FALSE, fileTried |-> FALSE,
          steps |-> <<"fetchFile">>]
    ELSE IF encryptedSymKey = << >>
    THEN [resp |-> ErrorResp(500, "KEY_NOT_AVAILABLE", TKeyNotAvailable),
          stage |-> "keycheck", keyTried |-> FALSE, fileTried |-> FALSE,
          steps |-> <<"fetchFile", "keycheck">>]
    ELSE IF ~k.ok
    THEN [resp |-> ErrorResp(500, "CLAIM_ERROR", TInternal),
          stage |-> "unwrap", keyTried |-> TRUE, fileTried |-> FALSE,
          steps |-> <<"fetchFile", "keycheck", "unwrap">>]
    ELSE LET f == decryptFile(fileResult.data, k.data)
         IN  IF ~f.ok
             THEN [resp |-> ErrorResp(500, "CLAIM_ERROR", TInternal),
                   stage |-> "decrypt", keyTried |-> TRUE, fileTried |-> TRUE,
                   steps |-> <<"fetchFile", "keycheck", "unwrap", "decrypt">>]
             ELSE [resp |-> FileResp(f.data), stage |-> "respond",
                   keyTried |-> TRUE, fileTried |-> TRUE,
                   steps |-> <<"fetchFile", "keycheck", "unwrap", "decrypt",
                               "detect", "respond">>]

\* ------------------------------------------------------------------------
\* State
\* ------------------------------------------------------------------------
\* a call that leaves the backend: a contract call or a store request; an
\* argument is a drop identifier or a locator (a number here), or a string
\* or a byte buffer
Call(fn, args) == [fn |-> fn, args |-> args]
Ref(n) == [kind |-> "ref", val |-> <<n>>]
Data(seq) == [kind |-> "data", val |-> seq]

VARIABLES
    ledger,      \* the contract's drops: dropId -> record
    ipfs,        \* the content store: the sequence of pinned blobs, cid = index
    rng,         \* number of 12- and 32-byte CSPRNG outputs drawn so far
    up,          \* the upload request in flight and its response; logged
                 \* is what its console lines printed of the passphrase,
                 \* calls the contract calls and store requests it made
    cl,          \* per request slot, the claim in flight and its response
    issued,      \* per drop, what its upload produced (history)
    nonces,      \* the nonce of every envelope ever produced (history)
    nUploads,    \* upload requests received
    nClaims,     \* claim requests received
    st,          \* the last answer of GET /api/status/:dropId
    rx,          \* the receiver page of the web client
    wallet       \* transactions the service wallet's account has sent: the
                 \* count a signer reads as the nonce of its next one

vars == <<ledger, ipfs, rng, up, cl, issued, nonces, nUploads, nClaims,
          st, rx, wallet>>

NoIssue == [known |-> FALSE, passphrase |-> << >>, plaintext |-> << >>,
            file |-> [iv |-> << >>, authTag |-> << >>, data |-> << >>],
            key |-> [iv |-> << >>, authTag |-> << >>, data |-> << >>],
            fileKey |-> << >>, kek |-> << >>]

IdleUpload == [pc |-> "idle", dropId |-> 0, ipfsHash |-> 0,
               encryptedSymKey |-> << >>, passphraseHash |-> << >>,
               passphrase |-> << >>, made |-> NoIssue, resp |-> NoResp,
               file |-> << >>, logged |-> << >>, calls |-> << >>]

Reqs == 1..MaxReqs

IdleClaim == [pc |-> "idle", dropId |-> 0, passphrase |-> << >>,
              ipfsHash |-> 0, encryptedSymKey |-> << >>, keyTamper |-> "none",
              fileTamper |-> "none", fileLen |-> 0, stage |-> "",
              ledgerSaid |-> "", keyTried |-> FALSE, fileTried |-> FALSE,
              kek |-> << >>, faults |-> 0, existed |-> FALSE,
              resp |-> NoResp, logged |-> << >>, calls |-> << >>,
              steps |-> << >>, txNonce |-> Undefined]

Init ==
    /\ ledger = [d \in DropIds |-> NoDrop]
    /\ ipfs = << >>
    /\ rng = 0
    /\ up = IdleUpload
    /\ cl = [r \in Reqs |-> IdleClaim]
    /\ issued = [d \in DropIds |-> NoIssue]
    /\ nonces = << >>
    /\ nUploads = 0
    /\ nClaims = 0
    /\ st = NoStatus
    /\ rx = IdlePage
    /\ wallet = 0

\* ------------------------------------------------------------------------
\* POST /api/upload
\* ------------------------------------------------------------------------
\* the body fails uploadSchema (file: minLength 1)
UploadRejected(file) ==
    /\ up.pc \in {"idle", "done"}
    /\ nUploads < MaxUploads
    /\ nUploads + nClaims < MaxRequests
    /\ ~uploadSchemaOk(file)
    /\ nUploads' = nUploads + 1
    /\ up' = [IdleUpload EXCEPT !.pc = "done", !.file = file,
                !.resp = ErrorResp(400, "FST_ERR_VALIDATION", << >>)]
    /\ UNCHANGED <<wallet, st, rx, ledger, ipfs, rng, cl, issued, nonces, nClaims>>

\* mutant: a failed IPFS upload does not end the request
UploadEncryptIgnoringIpfs(file, bytes, ipfsOk) ==
    /\ up.pc \in {"idle", "done"}
    /\ nUploads < MaxUploads
    /\ nUploads + nClaims < MaxRequests
    /\ uploadSchemaOk(file)
    /\ nUploads' = nUploads + 1
    /\ LET passphrase == generatePassphrase(bytes)
           passphraseHash == uploadPassphraseHash(passphrase)
           fileBuffer == FromBase64(file)
           e == encryptFile(fileBuffer, rng, rng + 1)
           encryptedFile == packFile(e.iv, e.authTag, e.encryptedData)
           w == encryptSymmetricKey(e.key, passphrase, rng + 2)
       IN  IF ipfsOk
           THEN /\ ipfs' = Append(ipfs, encryptedFile)
                /\ rng' = rng + 3
                /\ nonces' = nonces \o <<e.iv, w.iv>>
                /\ \E dropId \in DropIds :
                     up' = [IdleUpload EXCEPT
                            !.pc = "ledger", !.dropId = dropId,
                            !.file = file,
                            !.logged = <<passphrase>>,
                            !.calls = <<Call("uploadFile", <<Data(encryptedFile)>>)>>,
                            !.ipfsHash = Len(ipfs) + 1,
                            !.encryptedSymKey = w.base64,
                            !.passphraseHash = passphraseHash,
                            !.passphrase = passphrase,
                            !.made = [known |-> TRUE,
                                      passphrase |-> passphrase,
                                      plaintext |-> fileBuffer,
                                      file |-> [iv |-> e.iv,
                                                authTag |-> e.authTag,
                                                data |-> e.encryptedData],
                                      key |-> [iv |-> w.iv,
                                               authTag |-> w.authTag,
                                               data |-> w.encryptedKey],
                                      fileKey |-> e.key,
                                      kek |-> w.kek]]
           ELSE /\ rng' = rng + 3
                /\ nonces' = nonces \o <<e.iv, w.iv>>
                /\ \E dropId \in DropIds :
                     up' = [IdleUpload EXCEPT
                            !.pc = "ledger", !.dropId = dropId,
                            !.file = file,
                            !.logged = <<passphrase>>,
                            !.calls = <<Call("uploadFile", <<Data(encryptedFile)>>)>>,
                            !.encryptedSymKey = w.base64,
                            !.passphraseHash = passphraseHash,
                            !.passphrase = passphrase]
                /\ UNCHANGED ipfs
    /\ UNCHANGED <<wallet, st, rx, ledger, cl, issued, nClaims>>

\* steps 1 to 5: passphrase, encryptFile, uploadFile, encryptSymmetricKey,
\* dropId; ends at the call of blockdagService.createDrop
UploadEncrypt(file, bytes, ipfsOk) ==
    /\ up.pc \in {"idle", "done"}
    /\ nUploads < MaxUploads
    /\ nUploads + nClaims < MaxRequests
    /\ uploadSchemaOk(file)
    /\ nUploads' = nUploads + 1
    /\ LET passphrase == generatePassphrase(bytes)
           passphraseHash == uploadPassphraseHash(passphrase)
           fileBuffer == FromBase64(file)
           e == encryptFile(fileBuffer, rng, rng + 1)
           encryptedFile == packFile(e.iv, e.authTag, e.encryptedData)
           w == encryptSymmetricKey(e.key, passphrase, rng + 2)
       IN  IF ipfsOk
           THEN /\ ipfs' = Append(ipfs, encryptedFile)
                /\ rng' = rng + 3
                /\ nonces' = nonces \o <<e.iv, w.iv>>
                /\ \E dropId \in DropIds :
                     up' = [IdleUpload EXCEPT
                            !.pc = "ledger", !.dropId = dropId,
                            !.file = file,
                            !.logged = <<passphrase>>,
                            !.calls = <<Call("uploadFile", <<Data(encryptedFile)>>)>>,
                            !.ipfsHash = Len(ipfs) + 1,
                            !.encryptedSymKey = w.base64,
                            !.passphraseHash = passphraseHash,
                            !.passphrase = passphrase,
                            !.made = [known |-> TRUE,
                                      passphrase |-> passphrase,
                                      plaintext |-> fileBuffer,
                                      file |-> [iv |-> e.iv,
                                                authTag |-> e.authTag,
                                                data |-> e.encryptedData],
                                      key |-> [iv |-> w.iv,
                                               authTag |-> w.authTag,
                                               data |-> w.encryptedKey],
                                      fileKey |-> e.key,
                                      kek |-> w.kek]]
           ELSE /\ rng' = rng + 2
                /\ nonces' = Append(nonces, e.iv)
                /\ \E m \in GatewayErrorTexts :
                     up' = [IdleUpload EXCEPT !.pc = "done",
                              !.file = file,
                              !.logged = <<passphrase>>,
                              !.calls = <<Call("uploadFile", <<Data(encryptedFile)>>)>>,
                              !.resp = ErrorResp(500, "IPFS_UPLOAD_FAILED",
                                                 TUploadFailed \o m)]
                /\ UNCHANGED ipfs
    /\ UNCHANGED <<wallet, st, rx, ledger, cl, issued, nClaims>>

\* step 6: BlockDAGService.createDrop and the response
UploadCreateDrop(txOk) ==
    /\ up.pc = "ledger"
    /\ LET hash32 == Bytes32Of(With0x(up.passphraseHash))
           r == IF txOk
                THEN ContractCreateDrop(ledger, up.dropId, up.ipfsHash,
                                        up.encryptedSymKey, hash32)
                ELSE [ok |-> FALSE, message |-> CHOOSE m \in RpcErrorTexts : TRUE,
                      ledger |-> ledger]
           calls == Append(up.calls,
                           Call("createDrop",
                                <<Ref(up.dropId), Ref(up.ipfsHash),
                                  Data(up.encryptedSymKey), Data(hash32)>>))
       IN  /\ ledger' = r.ledger
           /\ wallet' = IF r.ok THEN wallet + 1 ELSE wallet
           /\ IF r.ok
              THEN /\ issued' = [issued EXCEPT ![up.dropId] = up.made]
                   /\ up' = [IdleUpload EXCEPT !.pc = "done",
                               !.dropId = up.dropId,
                               !.file = up.file,
                               !.passphrase = up.passphrase,
                               !.logged = up.logged, !.calls = calls,
                               !.resp = [NoResp EXCEPT !.status = 201,
                                                       !.code = "CREATED"]]
              ELSE /\ issued' = issued
                   /\ up' = [IdleUpload EXCEPT !.pc = "done",
                               !.file = up.file,
                               !.logged = up.logged, !.calls = calls,
                               !.resp = ErrorResp(500, "BLOCKDAG_CREATE_FAILED",
                                                  TCreateFailed \o r.message)]
    /\ UNCHANGED <<st, rx, ipfs, rng, cl, nonces, nUploads, nClaims>>

\* ------------------------------------------------------------------------
\* POST /api/claim
\* ------------------------------------------------------------------------
\* the body fails claimSchema (dropId, passphrase: minLength 1)
ClaimRejected(r, passphrase) ==
    /\ cl[r].pc \in {"idle", "done"}
    /\ nClaims < MaxClaims
    /\ nUploads + nClaims < MaxRequests
    /\ ~claimSchemaOk(passphrase)
    /\ nClaims' = nClaims + 1
    /\ cl' = [cl EXCEPT ![r] = [IdleClaim EXCEPT !.pc = "done",
                !.resp = ErrorResp(400, "FST_ERR_VALIDATION", << >>)]]
    /\ UNCHANGED <<wallet, st, rx, ledger, ipfs, rng, up, issued, nonces, nUploads>>

\* the request and the first half of BlockDAGService.claimDrop: the getDrop
\* read and the isActive check
ClaimGetDrop(r, dropId, passphrase, rpcOk) ==
    /\ cl[r].pc \in {"idle", "done"}
    /\ nClaims < MaxClaims
    /\ nUploads + nClaims < MaxRequests
    /\ claimSchemaOk(passphrase)
    /\ nClaims' = nClaims + 1
    /\ rpcOk \/ MaxFaults >= 1
    /\ LET req == [IdleClaim EXCEPT !.dropId = dropId,
                                    !.passphrase = passphrase,
                                    !.logged = <<passphrase>>,
                                    !.calls = <<Call("getDrop", <<Ref(dropId)>>)>>,
                                    !.existed = ledger[dropId].exists,
                                    !.steps = <<"hash", "getDrop">>,
                                    !.stage = "getDrop"]
       IN  IF ~rpcOk \/ ~ledger[dropId].exists
           THEN cl' = [cl EXCEPT ![r] = [req EXCEPT !.pc = "done",
                    !.ledgerSaid = IF rpcOk THEN "missing" ELSE "rpc",
                    !.resp = routeClaimFailure(TDropDoesNotExist)]]
           ELSE IF ~ledger[dropId].isActive
           THEN cl' = [cl EXCEPT ![r] = [req EXCEPT !.pc = "done",
                    !.ledgerSaid = "inactive",
                    !.resp = routeClaimFailure(TDropIsNotActive)]]
           ELSE \E k \in KeyVariants(ledger[dropId].encryptedSymKey) :
                  /\ k.t = "none" \/ MaxFaults >= 1
                  /\ cl' = [cl EXCEPT ![r] = [req EXCEPT !.pc = "tx",
                    !.faults = IF k.t = "none" THEN 0 ELSE 1,
                    !.ipfsHash = ledger[dropId].ipfsHash,
                    !.encryptedSymKey = k.v,
                    !.keyTamper = k.t]]
    /\ UNCHANGED <<wallet, st, rx, ledger, ipfs, rng, up, issued, nonces, nUploads>>

\* step 1 (the hash of the passphrase, first used here) and the second half
\* of BlockDAGService.claimDrop: the claim transaction and its receipt, then
\* the route's error mapping or the call of fetchFile
ClaimTransact(r, sent, message) ==
    LET c == cl[r]
        passphraseHash == claimPassphraseHash(c.passphrase)
        hash32 == Bytes32Of(With0x(passphraseHash))
        t == IF sent
             THEN ContractClaimDrop(ledger, c.dropId, hash32)
             ELSE [ok |-> FALSE, message |-> message, ledger |-> ledger]
        calls == Append(c.calls, Call("claimDrop",
                                 <<Ref(c.dropId), Data(hash32)>>))
    IN  /\ ledger' = t.ledger
        /\ wallet' = IF sent THEN wallet + 1 ELSE wallet
        /\ IF t.ok
           THEN cl' = [cl EXCEPT ![r] = [c EXCEPT !.pc = "fetch",
                         !.stage = "tx", !.ledgerSaid = "ok",
                         !.steps = Append(c.steps, "claimDrop"),
                         !.calls = calls]]
           ELSE cl' = [cl EXCEPT ![r] = [c EXCEPT !.pc = "done",
                         !.stage = "tx", !.calls = calls,
                         !.steps = Append(c.steps, "claimDrop"),
                         !.ledgerSaid =
                             IF ~sent THEN "rpc"
                             ELSE IF t.message = RevertInvalidPassphrase
                                  THEN "mismatch"
                             ELSE IF t.message = RevertNotActive
                                  THEN "inactive" ELSE "missing",
                         !.ipfsHash = 0, !.encryptedSymKey = << >>,
                         !.resp = routeClaimFailure(
                                     serviceClaimError(t.message))]]
        /\ UNCHANGED <<st, rx, ipfs, rng, up, issued, nonces, nUploads, nClaims>>

\* the transaction of a claim, signed and sent in one step: the nonce the
\* signer read is the account's count when the node gets the transaction
ClaimTx(r, rpcOk) ==
    /\ cl[r].pc = "tx"
    /\ rpcOk \/ cl[r].faults < MaxFaults
    /\ ClaimTransact(r, rpcOk, CHOOSE m \in RpcErrorTexts : TRUE)

\* contract.claimDrop(...) up to the signing: the signer of the one service
\* wallet reads the account's transaction count as the nonce
ClaimPopulate(r) ==
    /\ cl[r].pc = "tx"
    /\ cl' = [cl EXCEPT ![r].pc = "send", ![r].txNonce = wallet]
    /\ UNCHANGED <<wallet, st, rx, ledger, ipfs, rng, up, issued, nonces,
                   nUploads, nClaims>>

\* the signed transaction reaches the node: accepted when its nonce is the
\* account's count, refused when the account has sent one with that nonce
ClaimSend(r) ==
    /\ cl[r].pc = "send"
    /\ ClaimTransact(r, cl[r].txNonce = wallet, NonceUsed)

\* steps 3 to 7: the result of ipfsService.fetchFile, the two decryptions
\* and the response
ClaimFetch(r, k, fileResult, tamper) ==
    LET c == cl[r]
        a == claimAfterFetch(c.encryptedSymKey, k, fileResult)
    IN  /\ cl' = [cl EXCEPT ![r] = [c EXCEPT !.pc = "done",
                    !.stage = a.stage, !.resp = a.resp,
                    !.steps = c.steps \o a.steps,
                    !.keyTried = a.keyTried, !.fileTried = a.fileTried,
                    !.kek = IF a.keyTried THEN k.kek ELSE << >>,
                    !.fileTamper = tamper,
                    !.fileLen = Len(fileResult.data),
                    !.calls = Append(c.calls, Call("fetchFile", <<Ref(c.ipfsHash)>>)),
                    !.ipfsHash = 0, !.encryptedSymKey = << >>]]
        /\ UNCHANGED <<wallet, st, rx, ledger, ipfs, rng, up, issued, nonces, nUploads, nClaims>>

\* the gateway answers with the stored blob or an altered one
ClaimFetchOk(r) ==
    /\ cl[r].pc = "fetch"
    /\ cl[r].ipfsHash \in 1..Len(ipfs)
    /\ LET k == decryptSymmetricKey(cl[r].encryptedSymKey, cl[r].passphrase)
       IN  \E f \in FileVariants(ipfs[cl[r].ipfsHash]) :
             /\ f.t = "none" \/ cl[r].faults < MaxFaults
             /\ ClaimFetch(r, k, [success |-> TRUE, data |-> f.v, error |-> << >>],
                           f.t)

\* the gateway request fails
ClaimFetchFailed(r) ==
    /\ cl[r].pc = "fetch"
    /\ cl[r].faults < MaxFaults
    /\ \E m \in GatewayErrorTexts :
         ClaimFetch(r, [ok |-> FALSE, data |-> << >>, kek |-> << >>],
                    [success |-> FALSE, data |-> << >>,
                     error |-> TFetchFailed \o m], "none")

\* deactivateDrop(dropId), sent by the drop's owner
Deactivate(dropId) ==
    /\ ledger[dropId].exists
    /\ ledger[dropId].isActive
    /\ ledger' = [ledger EXCEPT ![dropId].isActive = FALSE]
    /\ wallet' = wallet + 1
    /\ UNCHANGED <<st, rx, ipfs, rng, up, cl, issued, nonces, nUploads, nClaims>>

\* GET /api/status/:dropId
Status(dropId, rpcOk) ==
    /\ rpcOk \/ MaxFaults >= 1
    /\ st' = statusResponse(dropId, serviceGetDrop(ledger, dropId, rpcOk))
    /\ UNCHANGED <<ledger, ipfs, rng, up, cl, issued, nonces, nUploads,
                   nClaims, rx, wallet>>

\* handleClaim up to the call of claimDrop: the two input tests, then
\* claimState "verifying" and "downloading"
RxClaim(dropId, passphrase) ==
    /\ rx.claimState = "idle"
    /\ IF ~isValidPassphrase(passphrase)
       THEN rx' = [rx EXCEPT !.dropId = dropId, !.toast = "Invalid passphrase",
                             !.got = FALSE, !.fileName = << >>]
       ELSE IF Trim(dropId) = << >>
       THEN rx' = [rx EXCEPT !.dropId = dropId, !.toast = "Missing Drop ID",
                             !.got = FALSE, !.fileName = << >>]
       ELSE rx' = [rx EXCEPT !.dropId = dropId, !.claimState = "downloading",
                             !.got = FALSE, !.fileName = << >>]
    /\ UNCHANGED <<ledger, ipfs, rng, up, cl, issued, nonces, nUploads,
                   nClaims, st, wallet>>

\* handleClaim from the return of claimDrop on: the catch, the safety
\* check, the download
RxResponse(response) ==
    /\ rx.claimState = "downloading"
    /\ LET c == clientClaimDrop(rx.dropId, response)
       IN  IF c.thrown
           THEN rx' = [rx EXCEPT !.claimState = "idle",
                                 !.toast = "Claim failed"]
           ELSE IF pageRefuses(c.fileName)
           THEN rx' = [rx EXCEPT !.claimState = "idle", !.got = TRUE,
                                 !.fileName = c.fileName,
                                 !.toast = "File type error"]
           ELSE rx' = [rx EXCEPT !.claimState = "success", !.got = TRUE,
                                 !.fileName = c.fileName,
                                 !.downloads = @ \cup {c.fileName},
                                 !.toast = "File claimed successfully!"]
    /\ UNCHANGED <<ledger, ipfs, rng, up, cl, issued, nonces, nUploads,
                   nClaims, st, wallet>>

\* handleReset
RxReset ==
    /\ rx.claimState = "success"
    /\ rx' = [rx EXCEPT !.claimState = "idle"]
    /\ UNCHANGED <<ledger, ipfs, rng, up, cl, issued, nonces, nUploads,
                   nClaims, st, wallet>>

Next ==
    \/ \E file \in UploadFiles : UploadRejected(file)
    \/ \E file \in UploadFiles, bytes \in PassphraseDraws, ipfsOk \in BOOLEAN :
          UploadEncrypt(file, bytes, ipfsOk)
    \/ \E txOk \in BOOLEAN : UploadCreateDrop(txOk)
    \/ \E r \in Reqs, passphrase \in ClaimInputs : ClaimRejected(r, passphrase)
    \/ \E r \in Reqs, dropId \in DropIds, passphrase \in ClaimInputs,
          rpcOk \in BOOLEAN : ClaimGetDrop(r, dropId, passphrase, rpcOk)
    \/ \E r \in Reqs, rpcOk \in BOOLEAN : ClaimTx(r, rpcOk)
    \/ \E r \in Reqs : ClaimFetchOk(r)
    \/ \E r \in Reqs : ClaimFetchFailed(r)
    \/ \E dropId \in DropIds : Deactivate(dropId)

Spec == Init /\ [][Next]_vars

\* the status route next to uploads, claims and deactivations whose calls
\* are all answered
StatusFile == uint8ArrayToBase64(SubSeq(Sample, 1, MaxLen))
StatusDraw == <<0, 1, 2, 3, 4, 5>>

NextStatus ==
    \/ UploadEncrypt(StatusFile, StatusDraw, TRUE)
    \/ UploadCreateDrop(TRUE)
    \/ \E r \in Reqs, dropId \in DropIds :
          ClaimGetDrop(r, dropId, generatePassphrase(StatusDraw), TRUE)
    \/ \E r \in Reqs : ClaimTx(r, TRUE)
    \/ \E r \in Reqs : ClaimFetchOk(r)
    \/ \E dropId \in DropIds : Deactivate(dropId)
    \/ \E dropId \in DropIds, rpcOk \in BOOLEAN : Status(dropId, rpcOk)

SpecStatus == Init /\ [][NextStatus]_vars

\* the receiver page and the API client, over the responses of the API
NextReceiver ==
    \/ \E dropId \in RxDropIds, passphrase \in ClaimInputs :
          RxClaim(dropId, passphrase)
    \/ \E response \in ApiResponses(rx.dropId) : RxResponse(response)
    \/ RxReset

SpecReceiver == Init /\ [][NextReceiver]_vars

\* two claim requests in flight at once: the handler is async, and at each
\* await (getDrop, the nonce read, the send and its receipt, fetchFile) the
\* other request's handler may run
PairReqs == 1..2

InitPair ==
    /\ ledger = [d \in DropIds |-> NoDrop]
    /\ ipfs = << >>
    /\ rng = 0
    /\ up = IdleUpload
    /\ cl = [r \in PairReqs |-> IdleClaim]
    /\ issued = [d \in DropIds |-> NoIssue]
    /\ nonces = << >>
    /\ nUploads = 0
    /\ nClaims = 0
    /\ st = NoStatus
    /\ rx = IdlePage
    /\ wallet = 0

NextPair ==
    \/ \E file \in UploadFiles : UploadEncrypt(file, StatusDraw, TRUE)
    \/ UploadCreateDrop(TRUE)
    \/ \E r \in PairReqs, dropId \in DropIds, passphrase \in ClaimPassphrases :
          ClaimGetDrop(r, dropId, passphrase, TRUE)
    \/ \E r \in PairReqs : ClaimPopulate(r)
    \/ \E r \in PairReqs : ClaimSend(r)
    \/ \E r \in PairReqs : ClaimFetchOk(r)

SpecPair == InitPair /\ [][NextPair]_vars

\* ------------------------------------------------------------------------
\* Properties
\* ------------------------------------------------------------------------
\* request slot r holds an answered claim that named a drop
Done(r) == cl[r].pc = "done" /\ cl[r].dropId \in DropIds

\* what the upload of the drop named by the claim in slot r produced
Target(r) == issued[cl[r].dropId]

\* the drop was on the ledger when the claim was made, and the claim
\* presented the passphrase its upload returned
RightPassphrase(r) ==
    cl[r].existed /\ cl[r].passphrase = Target(r).passphrase

WrongPassphrase(r) ==
    cl[r].existed /\ cl[r].passphrase # Target(r).passphrase

\* both envelopes reached the claim handler as they were stored
Untampered(r) ==
    /\ cl[r].ledgerSaid = "ok"
    /\ cl[r].stage # "fetch"
    /\ cl[r].keyTamper = "none"
    /\ cl[r].fileTamper = "none"

\* C1: a claim with the passphrase of the upload, on envelopes delivered as
\* they were stored, answers 200 with exactly the uploaded plaintext, and the
\* KEK derived by the claim equals the KEK derived by the upload.
C1_RoundTrip ==
    \A r \in Reqs :
        (Done(r) /\ RightPassphrase(r) /\ Untampered(r))
            => /\ cl[r].resp.status = 200
               /\ cl[r].resp.file
               /\ cl[r].resp.body = Target(r).plaintext
               /\ cl[r].kek = Target(r).kek

C1_Witness ==
    \E r \in Reqs :
        /\ Done(r) /\ RightPassphrase(r) /\ Untampered(r)
        /\ cl[r].resp.file
        /\ Len(Target(r).plaintext) >= 1
        /\ cl[r].resp.body = Target(r).plaintext

\* C2 as stated: every claim presenting a passphrase other than the one the
\* drop was created under is answered 401 INVALID_PASSPHRASE and returns no
\* plaintext (read with every ledger call of the claim answered).
C2_WrongPassphraseIs401 ==
    \A r \in Reqs :
        (Done(r) /\ WrongPassphrase(r) /\ cl[r].ledgerSaid # "rpc")
            => /\ cl[r].resp.status = 401
               /\ cl[r].resp.code = "INVALID_PASSPHRASE"
               /\ ~cl[r].resp.file

\* C2 amended: a claim presenting another passphrase never returns plaintext,
\* never has its claim transaction confirmed and never reaches a decryption;
\* it is answered 401 INVALID_PASSPHRASE when the ledger executes the
\* transaction on an active drop and reports the mismatch, 403 DROP_INACTIVE
\* when the drop is deactivated, 404 DROP_NOT_FOUND when the getDrop read
\* fails and 500 CLAIM_FAILED when the transaction call fails otherwise.
C2_WrongPassphraseRejected ==
    \A r \in Reqs :
        (Done(r) /\ WrongPassphrase(r))
            => /\ ~cl[r].resp.file
               /\ cl[r].resp.body = << >>
               /\ ~cl[r].keyTried
               /\ ~cl[r].fileTried
               /\ cl[r].ledgerSaid \in {"mismatch", "inactive", "rpc"}
               /\ cl[r].ledgerSaid = "mismatch"
                    => cl[r].resp = ErrorResp(401, "INVALID_PASSPHRASE",
                                              TInvalidPassphrase)
               /\ cl[r].ledgerSaid = "inactive"
                    => cl[r].resp = ErrorResp(403, "DROP_INACTIVE", TDeactivated)
               /\ (cl[r].ledgerSaid = "rpc" /\ cl[r].stage = "getDrop")
                    => cl[r].resp = ErrorResp(404, "DROP_NOT_FOUND",
                                              TDropNotFound)
               /\ (cl[r].ledgerSaid = "rpc" /\ cl[r].stage = "tx")
                    => /\ cl[r].resp.status = 500
                       /\ cl[r].resp.code = "CLAIM_FAILED"

C2_Witness ==
    \E r \in Reqs :
        /\ Done(r) /\ WrongPassphrase(r)
        /\ cl[r].ledgerSaid = "mismatch"
        /\ cl[r].resp.status = 401

\* C3: with the right passphrase and the key envelope as stored, one flipped
\* bit in the tag region or in the ciphertext region of the delivered file
\* envelope makes the claim fail at decryptFile with 500 CLAIM_ERROR, which
\* is not the 401 INVALID_PASSPHRASE outcome, and no file is returned.
C3_TamperDetected ==
    \A r \in Reqs :
        (/\ Done(r) /\ RightPassphrase(r)
         /\ cl[r].ledgerSaid = "ok"
         /\ cl[r].keyTamper = "none"
         /\ cl[r].fileTamper \in {"tag", "ct"})
            => /\ cl[r].stage = "decrypt"
               /\ cl[r].resp = ErrorResp(500, "CLAIM_ERROR", TInternal)
               /\ cl[r].resp.code # "INVALID_PASSPHRASE"
               /\ ~cl[r].resp.file
               /\ cl[r].resp.body = << >>

C3_Witness ==
    \E r \in Reqs :
        /\ Done(r) /\ RightPassphrase(r)
        /\ cl[r].ledgerSaid = "ok"
        /\ cl[r].keyTamper = "none"
        /\ cl[r].fileTamper = "ct"
        /\ cl[r].stage = "decrypt"
        /\ cl[r].resp.status = 500

\* what a party holding only the ledger record and the pinned blob of a drop
\* computes: the commitment bytes used as the key of the key envelope
observerOpen(drop, blob) ==
    LET u == unpack(FromBase64(drop.encryptedSymKey))
        k == GcmDecrypt(drop.passphraseHash, u.iv, u.authTag, u.data)
        f == IF k.ok THEN decryptFile(blob, k.data)
             ELSE [ok |-> FALSE, data |-> << >>]
    IN  [kek |-> drop.passphraseHash, keyOpened |-> k.ok, fileKey |-> k.data,
         fileOpened |-> f.ok, plaintext |-> f.data]

\* a drop on the ledger whose blob is pinned
Published(d) ==
    issued[d].known /\ ledger[d].exists /\ ledger[d].ipfsHash \in 1..Len(ipfs)

\* C4: from the ledger record (key envelope, passphrase commitment) and the
\* pinned file envelope of a drop alone, nobody obtains the KEK, the FileKey
\* or the plaintext of the drop.
C4_PublicArtifactsKeepSecrets ==
    \A d \in DropIds :
        Published(d) =>
            LET o == observerOpen(ledger[d], ipfs[ledger[d].ipfsHash])
            IN  /\ o.kek # issued[d].kek
                /\ ~(o.keyOpened /\ o.fileKey = issued[d].fileKey)
                /\ ~(o.fileOpened /\ o.plaintext = issued[d].plaintext)

\* C5: the commitment stored on the ledger for a drop is never equal to the
\* key-encryption-key that wraps the FileKey of that drop.
C5_CommitmentIsNotKek ==
    \A d \in DropIds :
        (issued[d].known /\ ledger[d].exists)
            => ledger[d].passphraseHash # issued[d].kek

\* C6: every envelope ever produced has a 12-byte nonce of its own: no two
\* envelopes, file or key, of the same upload or of different uploads, have
\* equal nonces.
C6_NoncesUnique ==
    \A i \in 1..Len(nonces) :
        /\ Len(nonces[i]) = IV_LEN
        /\ \A j \in 1..Len(nonces) : i # j => nonces[i] # nonces[j]

\* two drops made from the same plaintext under the same passphrase
C6_Witness ==
    /\ \A d \in DropIds : issued[d].known
    /\ \E d, e \in DropIds :
         /\ d # e
         /\ issued[d].plaintext = issued[e].plaintext
         /\ issued[d].passphrase = issued[e].passphrase
         /\ issued[d].file.iv # issued[e].file.iv
         /\ issued[d].key.iv # issued[e].key.iv
    /\ Len(nonces) >= 4

\* C7: the pinned blob of a drop is nonce(12) || tag(16) || ciphertext(N),
\* 28 + N bytes long with N the plaintext's length, and the three slices
\* taken by the claim side are exactly the parts the upload concatenated; the
\* base64-decoded key envelope has the same layout around the 32-byte key.
C7_Framing ==
    \A d \in DropIds :
        Published(d) =>
            LET m == issued[d]
                blob == ipfs[ledger[d].ipfsHash]
                keyBytes == FromBase64(ledger[d].encryptedSymKey)
            IN  /\ Len(m.file.iv) = IV_LEN
                /\ Len(m.file.authTag) = TAG_LEN
                /\ Len(m.file.data) = Len(m.plaintext)
                /\ Len(blob) = HEADER_LEN + Len(m.plaintext)
                /\ unpack(blob) = m.file
                /\ Len(m.key.iv) = IV_LEN
                /\ Len(m.key.authTag) = TAG_LEN
                /\ Len(m.key.data) = KEY_LEN
                /\ Len(keyBytes) = HEADER_LEN + KEY_LEN
                /\ unpack(keyBytes) = m.key

\* a drop with a non-empty plaintext and a drop with the empty plaintext
C7_Witness ==
    /\ \E d \in DropIds : Published(d) /\ Len(issued[d].plaintext) >= 1
    /\ \E d \in DropIds : Published(d) /\ Len(issued[d].plaintext) = 0

\* C8: an envelope shorter than 28 bytes, delivered as the file or as the
\* decoded key envelope, is refused as malformed before any decryption call.
C8_ShortEnvelopeRefused ==
    \A r \in Reqs :
        Done(r) =>
            /\ cl[r].keyTamper = "short" => ~cl[r].keyTried
            /\ (cl[r].fileTamper = "short" /\ cl[r].fileLen < HEADER_LEN)
                 => /\ ~cl[r].fileTried
                    /\ cl[r].resp.code = "MALFORMED_ENVELOPE"

\* C9: a claim with a wrong passphrase and a claim with the right passphrase
\* on a tampered key envelope get the same response, the one of an invalid
\* passphrase.
C9_SameOutcome ==
    \A r \in Reqs :
        (/\ Done(r)
         /\ \/ WrongPassphrase(r) /\ cl[r].ledgerSaid = "mismatch"
            \/ /\ RightPassphrase(r)
               /\ cl[r].keyTamper \in {"flip", "short"}
               /\ cl[r].stage = "unwrap")
            => cl[r].resp = ErrorResp(401, "INVALID_PASSPHRASE",
                                      TInvalidPassphrase)

\* C10: a claim failing for a wrong passphrase or for a corrupted file gets
\* the one generic failure response, and no failure response carries error
\* text of the ledger, of the content store or of the cipher.
C10_GenericFailure ==
    \A r \in Reqs :
        (Done(r) /\ cl[r].resp.status # 200)
            => /\ (\/ WrongPassphrase(r) /\ cl[r].ledgerSaid = "mismatch"
                   \/ cl[r].stage = "decrypt")
                    => cl[r].resp = ErrorResp(500, "CLAIM_ERROR", TInternal)
               /\ \A t \in RpcErrorTexts \cup GatewayErrorTexts :
                    ~Includes(cl[r].resp.error, t)

\* the stored parts of drop d that a claim reads
Stored(led, d) ==
    <<led[d].ipfsHash, led[d].encryptedSymKey, led[d].passphraseHash>>

ClaimArrives(r, d) ==
    /\ nClaims' = nClaims + 1
    /\ cl'[r].dropId = d
    /\ cl'[r].stage = "getDrop"

\* C12: a drop that is not active never becomes active again, and a claim
\* of a drop whose getDrop read reports isActive = false ends in that step
\* with 403 DROP_INACTIVE: no claim transaction is sent (the ledger is left
\* as it was), nothing is fetched and no decryption is attempted.
C12_DeactivationIsTerminal ==
    [][/\ \A d \in DropIds :
            (ledger[d].exists /\ ~ledger[d].isActive) => ~ledger'[d].isActive
       /\ \A r \in Reqs, d \in DropIds :
            (/\ ClaimArrives(r, d)
             /\ ledger[d].exists /\ ~ledger[d].isActive
             /\ cl'[r].ledgerSaid # "rpc")
                => /\ cl'[r].pc = "done"
                   /\ cl'[r].ledgerSaid = "inactive"
                   /\ cl'[r].resp = ErrorResp(403, "DROP_INACTIVE", TDeactivated)
                   /\ ledger' = ledger
                   /\ ipfs' = ipfs
                   /\ ~cl'[r].keyTried
                   /\ ~cl'[r].fileTried
                   /\ cl'[r].kek = << >>
                   /\ ~cl'[r].resp.file]_vars

\* a claim with the right passphrase refused because the drop is deactivated
C12_Witness ==
    \E r \in Reqs :
        /\ Done(r) /\ RightPassphrase(r)
        /\ ~ledger[cl[r].dropId].isActive
        /\ cl[r].stage = "getDrop"
        /\ cl[r].ledgerSaid = "inactive"
        /\ cl[r].resp.status = 403

\* the calls made by the upload and by the claims, with the passphrase of
\* the request that made them
CallsMade ==
    {[call |-> up.calls[i], passphrase |-> up.logged[1]] :
        i \in 1..Len(up.calls)}
    \cup UNION {{[call |-> cl[r].calls[i], passphrase |-> cl[r].passphrase] :
                    i \in 1..Len(cl[r].calls)} : r \in Reqs}

\* C13: no argument of a contract call or of a store request is the
\* passphrase, as text or as UTF-8 bytes; createDrop is called with (dropId,
\* locator, key envelope, commitment) and claimDrop with (dropId,
\* commitment), where the commitment is the 32-byte keccak_256 digest of
\* the passphrase, and getDrop, uploadFile and fetchFile take one argument
\* that is the dropId, the encrypted file and the locator.
C13_OnlyCommitmentCrosses ==
    \A m \in CallsMade :
        LET a == m.call.args
            commitment == Keccak256(Utf8(m.passphrase))
        IN  /\ \A i \in 1..Len(a) :
                  a[i].val # m.passphrase /\ a[i].val # Utf8(m.passphrase)
            /\ m.call.fn \in {"createDrop", "claimDrop", "getDrop",
                               "uploadFile", "fetchFile"}
            /\ m.call.fn = "createDrop"
                 => /\ Len(a) = 4
                    /\ a[1].kind = "ref" /\ a[2].kind = "ref"
                    /\ a[3].kind = "data"
                    /\ Len(a[4].val) = KEY_LEN /\ a[4].val = commitment
            /\ m.call.fn = "claimDrop"
                 => /\ Len(a) = 2
                    /\ a[1].kind = "ref"
                    /\ Len(a[2].val) = KEY_LEN /\ a[2].val = commitment
            /\ m.call.fn \in {"getDrop", "uploadFile", "fetchFile"}
                 => Len(a) = 1

\* an upload that called createDrop and a claim that called claimDrop
C13_Witness ==
    /\ \E i \in 1..Len(up.calls) : up.calls[i].fn = "createDrop"
    /\ \E r \in Reqs : \E i \in 1..Len(cl[r].calls) :
          /\ cl[r].calls[i].fn = "claimDrop"
          /\ cl[r].ledgerSaid = "ok"

\* C14: nothing the system writes holds a passphrase: no console line of an
\* upload or of a claim, no field of a ledger record and no pinned blob.
C14_PassphraseNeverPersisted ==
    \A p \in ClaimPassphrases :
        /\ \A i \in 1..Len(up.logged) : up.logged[i] # p
        /\ \A r \in Reqs : \A i \in 1..Len(cl[r].logged) : cl[r].logged[i] # p
        /\ \A d \in DropIds :
              /\ ledger[d].encryptedSymKey # p
              /\ ledger[d].passphraseHash # p
        /\ \A i \in 1..Len(ipfs) : ipfs[i] # p

\* C15: the commitment is a function of the passphrase and verification
\* accepts exactly the passphrase committed to: the ledger's comparison of
\* a claim accepts it if and only if the claim presents the passphrase of
\* the upload; the bytes32 stored for a drop is the one a claim sends for
\* the same passphrase, with or without the 0x prefix on the hex string;
\* and verifyZKProof(S', generateZKProof(S)) is true exactly when S' = S.
C15_CommitmentVerifies ==
    /\ \A r \in Reqs :
          (Done(r) /\ cl[r].existed)
            => /\ cl[r].ledgerSaid = "ok" => RightPassphrase(r)
               /\ cl[r].ledgerSaid = "mismatch" => WrongPassphrase(r)
               /\ verifyZKProof(cl[r].passphrase,
                                generateZKProof(Target(r).passphrase))
                    <=> cl[r].passphrase = Target(r).passphrase
    /\ \A d \in DropIds :
          (issued[d].known /\ ledger[d].exists)
            => LET hex == claimPassphraseHash(issued[d].passphrase)
               IN  /\ Len(ledger[d].passphraseHash) = KEY_LEN
                   /\ ledger[d].passphraseHash = Bytes32Of(With0x(hex))
                   /\ ledger[d].passphraseHash
                        = Bytes32Of(With0x(HexPrefix \o hex))
                   /\ hex = uploadPassphraseHash(issued[d].passphrase)

\* a claim accepted by the ledger's comparison after one it refused
C15_Witness ==
    \E r \in Reqs :
        /\ Done(r) /\ cl[r].existed
        /\ cl[r].ledgerSaid = "mismatch"
        /\ cl[r].passphrase \in {generatePassphrase(b) : b \in PassphraseDraws}
        /\ ledger[cl[r].dropId].claimCount = 1

\* C16: a claim whose passphrase is the empty string is answered 400 by the
\* schema before the handler runs: nothing is logged or hashed, no call
\* leaves the backend, no key is tried and no KEK is derived; and whatever
\* request logged, called or derived a KEK had a passphrase that is not
\* empty.
C16_EmptyPassphraseRejected ==
    \A r \in Reqs :
        /\ (cl[r].pc # "idle" /\ cl[r].passphrase = << >>)
              => /\ cl[r].pc = "done"
                 /\ cl[r].resp = ErrorResp(400, "FST_ERR_VALIDATION", << >>)
                 /\ cl[r].logged = << >>
                 /\ cl[r].calls = << >>
                 /\ cl[r].stage = ""
                 /\ cl[r].ledgerSaid = ""
                 /\ ~cl[r].keyTried
                 /\ cl[r].kek = << >>
        /\ (cl[r].kek # << >> \/ cl[r].calls # << >> \/ cl[r].logged # << >>)
              => Len(cl[r].passphrase) >= 1

\* an empty passphrase was refused while a drop was there to be claimed
C16_Witness ==
    \E r \in Reqs :
        /\ cl[r].pc = "done"
        /\ cl[r].passphrase = << >>
        /\ cl[r].resp.status = 400
        /\ \E d \in DropIds : ledger[d].exists /\ ledger[d].isActive

\* C17: empty files are valid input: the upload of the body the client
\* sends for a zero-length file is not refused as invalid, and an intact
\* claim of a drop whose plaintext has no bytes, with its passphrase and
\* accepted by the ledger, is answered 200 with a zero-length file.
C17_EmptyFilesValid ==
    /\ (up.pc # "idle" /\ up.file = uint8ArrayToBase64(<< >>))
          => up.resp.status # 400
    /\ \A r \in Reqs :
          (/\ Done(r) /\ RightPassphrase(r) /\ Untampered(r)
           /\ cl[r].ledgerSaid = "ok" /\ cl[r].fileTried
           /\ Len(Target(r).plaintext) = 0)
            => cl[r].resp.status = 200 /\ cl[r].resp.body = << >>

\* the words of a passphrase: one more than its dashes, none if it is empty
WordsOf(passphrase) ==
    IF passphrase = << >> THEN 0
    ELSE 1 + Cardinality({i \in 1..Len(passphrase) : passphrase[i] = Dash})

\* draws in which one byte is not available
GappedDraws == {[b EXCEPT ![i] = Undefined] : b \in PassphraseDraws,
                                               i \in 1..WORD_COUNT}

Hits(i) == Cardinality({byte \in 0..255 : randomIndex(byte) = i})

\* C19: wherever an upload has generated a passphrase, every index of the
\* word list was open to selection by the same number of the 256 equally
\* likely byte values.
C19_UniformSelection ==
    up.logged # << >>
      => \A i, j \in 0..(Len(Words) - 1) : Hits(i) = Hits(j)

\* the key envelopes the claim in slot r may have read from the ledger
KeysRead(r) ==
    {kv \in KeyVariants(ledger[cl[r].dropId].encryptedSymKey) :
        kv.t = cl[r].keyTamper}

\* the file envelopes the claim in slot r may have got from the gateway
FilesRead(r) ==
    {fv \in FileVariants(ipfs[ledger[cl[r].dropId].ipfsHash]) :
        fv.t = cl[r].fileTamper /\ Len(fv.v) = cl[r].fileLen}

\* AES-256-GCM on the key envelope kv under the KEK of the claim in slot r
KeyOpens(r, kv) ==
    LET u == unpack(FromBase64(kv.v))
    IN  GcmDecrypt(claimKek(cl[r].passphrase), u.iv, u.authTag, u.data)

\* AES-256-GCM on the file envelope fv under the key that kv holds
FileOpens(r, kv, fv) ==
    LET u == unpack(fv.v)
    IN  GcmDecrypt(KeyOpens(r, kv).data, u.iv, u.authTag, u.data)

\* C20: plaintext leaves a decryption only after the tag has verified. A
\* response carries a file only if the tag of the key envelope and the tag
\* of the file envelope both verified, and the file is the plaintext of
\* that decryption; when the key envelope's tag fails the file is never
\* decrypted; when either tag fails the response is the 500 and carries no
\* bytes; and a decrypt function that fails returns no bytes.
C20_NoUnauthenticatedOutput ==
    \A r \in Reqs :
        (Done(r) /\ cl[r].existed /\ cl[r].keyTried)
          => /\ cl[r].resp.file
                  => /\ cl[r].fileTried
                     /\ \E kv \in KeysRead(r), fv \in FilesRead(r) :
                          /\ KeyOpens(r, kv).ok
                          /\ FileOpens(r, kv, fv).ok
                          /\ cl[r].resp.body = FileOpens(r, kv, fv).data
             /\ ~cl[r].fileTried
                  => /\ \E kv \in KeysRead(r) : ~KeyOpens(r, kv).ok
                     /\ cl[r].resp = ErrorResp(500, "CLAIM_ERROR", TInternal)
             /\ (cl[r].fileTried /\ ~cl[r].resp.file)
                  => /\ \E kv \in KeysRead(r), fv \in FilesRead(r) :
                          KeyOpens(r, kv).ok /\ ~FileOpens(r, kv, fv).ok
                     /\ cl[r].resp = ErrorResp(500, "CLAIM_ERROR", TInternal)
             /\ \A kv \in KeysRead(r) :
                  LET k == decryptSymmetricKey(kv.v, cl[r].passphrase)
                  IN  /\ ~k.ok => k.data = << >>
                      /\ \A fv \in FilesRead(r) :
                            LET f == decryptFile(fv.v, k.data)
                            IN  ~f.ok => f.data = << >>

\* a file envelope with ciphertext in it failed its tag after the key
\* envelope had verified
C20_Witness ==
    \E r \in Reqs :
        /\ Done(r) /\ cl[r].existed
        /\ cl[r].keyTried /\ cl[r].fileTried
        /\ ~cl[r].resp.file
        /\ cl[r].fileLen > HEADER_LEN

\* how often step x occurs in the steps of a request
Occurs(steps, x) == Cardinality({i \in 1..Len(steps) : steps[i] = x})

\* the names of the calls a request made, in order
CallNames(calls) == [i \in 1..Len(calls) |-> calls[i].fn]

\* C22: within one claim the key unwrap and the file decryption are each
\* attempted at most once; when either fails it is the last thing the
\* request does: the answer is the 500 CLAIM_ERROR, the calls made are the
\* three made before it, and the record of an answered request changes
\* only when a new request arrives.
C22_CryptoFailureTerminal ==
    /\ [](\A r \in Reqs :
            /\ Occurs(cl[r].steps, "unwrap") <= 1
            /\ Occurs(cl[r].steps, "decrypt") <= 1
            /\ (cl[r].keyTried /\ ~cl[r].resp.file)
                 => /\ cl[r].pc = "done"
                    /\ cl[r].steps[Len(cl[r].steps)]
                         = (IF cl[r].fileTried THEN "decrypt" ELSE "unwrap")
                    /\ cl[r].resp = ErrorResp(500, "CLAIM_ERROR", TInternal)
                    /\ CallNames(cl[r].calls)
                         = <<"getDrop", "claimDrop", "fetchFile">>)
    /\ [][\A r \in Reqs :
            (cl[r].pc = "done" /\ cl'[r] # cl[r]) => nClaims' = nClaims + 1]_vars

\* a file decryption failed after the key had been unwrapped
C22_Witness ==
    \E r \in Reqs :
        /\ Done(r) /\ cl[r].keyTried /\ cl[r].fileTried
        /\ cl[r].resp.status = 500
        /\ Occurs(cl[r].steps, "decrypt") = 1

\* the order of the steps of a claim
ClaimOrder == <<"hash", "getDrop", "claimDrop", "fetchFile", "keycheck",
                "unwrap", "decrypt", "detect", "respond">>

\* C23: the steps of a claim are an initial part of hash, getDrop,
\* claimDrop, fetchFile, keycheck, unwrap, decrypt, detect, respond, each
\* reached only when the one before succeeded: the transaction is sent
\* only for a drop read as existing, the file is fetched and a decryption
\* is tried only when the ledger confirmed the claim of an existing drop
\* with the commitment of its passphrase, the unwrap only on a fetched
\* file and a key envelope that is not empty, the file decryption only
\* with an unwrapped key, and a file is sent only after all nine.
C23_ClaimStepOrder ==
    \A r \in Reqs :
        LET steps == cl[r].steps
        IN  /\ steps = SubSeq(ClaimOrder, 1, Len(steps))
            /\ Occurs(steps, "claimDrop") = 1 => cl[r].existed
            /\ (\/ Occurs(steps, "fetchFile") = 1
                \/ cl[r].keyTried \/ cl[r].fileTried
                \/ "fetchFile" \in {cl[r].calls[i].fn : i \in 1..Len(cl[r].calls)})
                 => /\ cl[r].ledgerSaid = "ok"
                    /\ RightPassphrase(r)
                    /\ ledger[cl[r].dropId].claimCount >= 1
            /\ Occurs(steps, "keycheck") = 1 => cl[r].stage # "fetch"
            /\ Occurs(steps, "unwrap") = 1
                 => cl[r].keyTried /\ cl[r].keyTamper # "empty"
            /\ Occurs(steps, "decrypt") = 1
                 => cl[r].fileTried /\ cl[r].stage \in {"decrypt", "respond"}
            /\ cl[r].resp.file <=> (cl[r].pc = "done" /\ steps = ClaimOrder)
            /\ cl[r].pc = "done" /\ cl[r].dropId \in DropIds /\ ~cl[r].resp.file
                 => cl[r].resp.status \in {401, 403, 404, 500}

\* a claim went through all nine steps
C23_Witness ==
    \E r \in Reqs :
        /\ Done(r) /\ cl[r].resp.file
        /\ cl[r].steps = ClaimOrder

\* C24: the drop record is written only after the encrypted file is on
\* IPFS, and the 201 with dropId and passphrase is sent only after the
\* ledger confirmed the record: every record on the ledger names a stored
\* blob; createDrop is called only after an uploadFile that succeeded; a
\* 201 has both calls behind it and its drop on the ledger; a failed IPFS
\* upload is answered 500 IPFS_UPLOAD_FAILED with no ledger call; a failed
\* ledger write is answered 500 BLOCKDAG_CREATE_FAILED; neither failure
\* carries a passphrase or a dropId.
C24_UploadOrder ==
    /\ \A d \in DropIds :
          ledger[d].exists
            => /\ ledger[d].ipfsHash \in 1..Len(ipfs)
               /\ issued[d].known
               /\ ipfs[ledger[d].ipfsHash]
                    = packFile(issued[d].file.iv, issued[d].file.authTag,
                               issued[d].file.data)
    /\ up.pc = "ledger"
          => /\ CallNames(up.calls) = <<"uploadFile">>
             /\ up.ipfsHash \in 1..Len(ipfs)
             /\ ipfs[up.ipfsHash] = up.calls[1].args[1].val
             /\ up.resp = NoResp
    /\ (up.pc = "done" /\ up.resp.status = 201)
          => /\ CallNames(up.calls) = <<"uploadFile", "createDrop">>
             /\ up.dropId \in DropIds
             /\ ledger[up.dropId].exists
             /\ up.calls[2].args[1] = Ref(up.dropId)
             /\ up.calls[2].args[2] = Ref(ledger[up.dropId].ipfsHash)
             /\ up.passphrase = issued[up.dropId].passphrase
             /\ WordsOf(up.passphrase) = WORD_COUNT
    /\ (up.pc = "done" /\ up.resp.status # 201)
          => /\ up.passphrase = << >>
             /\ up.dropId = 0
             /\ up.resp.status \in {400, 500}
    /\ up.resp.code = "IPFS_UPLOAD_FAILED"
          => up.resp.status = 500 /\ CallNames(up.calls) = <<"uploadFile">>
    /\ up.resp.code = "BLOCKDAG_CREATE_FAILED"
          => /\ up.resp.status = 500
             /\ CallNames(up.calls) = <<"uploadFile", "createDrop">>
    /\ up.resp.status = 400 => up.calls = << >>

\* a ledger write failed after the file had been stored
C24_Witness ==
    /\ up.pc = "done"
    /\ up.resp.code = "BLOCKDAG_CREATE_FAILED"
    /\ Len(ipfs) >= 1

\* error texts of a failed claimResult: the four the service produces and
\* texts in which two of the tested phrases occur
MappedTexts ==
    {TInvalidPassphrase, TDropDoesNotExist, TDropIsNotActive,
     serviceClaimError(RevertNotActive), serviceClaimError(RevertMissing),
     serviceClaimError(RevertInvalidPassphrase)}
    \cup {serviceClaimError(m) : m \in RpcErrorTexts}
    \cup {TInvalidPassphrase \o TNotExist, TNotExist \o TInvalidPassphrase,
          TNotExist \o TNotActive, TNotActive \o TNotExist,
          TNotActive \o TInvalidPassphrase}

RECURSIVE Confirmed(_, _)
Confirmed(led, d) ==
    IF d = 0 THEN 0 ELSE led[d].claimCount + Confirmed(led, d - 1)

\* C26: the claim is counted before the file is delivered and the count is
\* never taken back. The step in which the ledger confirms a claim raises
\* the drop's claimCount by one and sets claimed, and sends no file; a file
\* appears in a response only in a later step of a request whose claim was
\* confirmed, and that step leaves the ledger alone; no step lowers a
\* claimCount; so a claim that fails at the fetch, at the key check or at a
\* decryption is answered 500 with its claim counted, and the confirmed
\* claims are never fewer than the requests past their confirmation.
C26_CountedBeforeDelivery ==
    /\ [](  /\ \A r \in Reqs :
                cl[r].ledgerSaid = "ok"
                  => /\ ledger[cl[r].dropId].claimCount >= 1
                     /\ ledger[cl[r].dropId].claimed
                     /\ (cl[r].pc = "done" /\ ~cl[r].resp.file)
                          => /\ cl[r].resp.status = 500
                             /\ cl[r].stage \in {"fetch", "keycheck",
                                                  "unwrap", "decrypt"}
            /\ \A r \in Reqs : cl[r].resp.file => cl[r].ledgerSaid = "ok"
            /\ Confirmed(ledger, MaxDrops)
                 >= Cardinality({r \in Reqs : cl[r].ledgerSaid = "ok"}))
    /\ [][  /\ \A d \in DropIds :
                /\ ledger'[d].claimCount >= ledger[d].claimCount
                /\ ledger[d].claimed => ledger'[d].claimed
            /\ \A r \in Reqs :
                /\ (cl'[r].ledgerSaid = "ok" /\ cl[r].ledgerSaid # "ok")
                     => /\ cl[r].pc = "tx" /\ cl'[r].pc = "fetch"
                        /\ ~cl'[r].resp.file
                        /\ ledger'[cl[r].dropId].claimCount
                             = ledger[cl[r].dropId].claimCount + 1
                /\ (cl'[r].resp.file /\ ~cl[r].resp.file)
                     => /\ cl[r].pc = "fetch" /\ cl[r].ledgerSaid = "ok"
                        /\ ledger' = ledger
                /\ (cl[r].pc = "fetch" /\ cl'[r].pc = "done")
                     => ledger' = ledger]_vars

\* a counted claim that ended in a 500 after its transaction
C26_Witness ==
    \E r \in Reqs :
        /\ Done(r)
        /\ cl[r].ledgerSaid = "ok"
        /\ cl[r].resp.status = 500
        /\ cl[r].stage = "decrypt"
        /\ ledger[cl[r].dropId].claimCount = 1

\* C27: BlockDAGService.claimDrop reads the drop before it sends the
\* transaction, and returns success only when the transaction itself was
\* confirmed on a drop that was active when it ran. A request goes on to
\* the fetch only by a transaction step taken on an existing, active drop
\* that raised its claimCount, and it carries the locator of the record; a
\* transaction step taken on a drop deactivated since the read ends the
\* request without a file, with 403 or (the call itself failing) 500,
\* leaves the ledger as it was and drops what the read had returned.
C27_CheckThenActSafe ==
    /\ [](\A r \in Reqs :
            cl[r].pc = "fetch"
              => /\ cl[r].ledgerSaid = "ok"
                 /\ cl[r].ipfsHash = ledger[cl[r].dropId].ipfsHash
                 /\ cl[r].encryptedSymKey \in
                      {k.v : k \in KeyVariants(
                                     ledger[cl[r].dropId].encryptedSymKey)})
    /\ [][\A r \in Reqs :
            /\ (cl[r].pc = "tx" /\ cl'[r].pc = "fetch")
                 => /\ ledger[cl[r].dropId].exists
                    /\ ledger[cl[r].dropId].isActive
                    /\ ledger'[cl[r].dropId].claimCount
                         = ledger[cl[r].dropId].claimCount + 1
            /\ (/\ cl[r].pc = "tx" /\ cl'[r] # cl[r]
                /\ ~ledger[cl[r].dropId].isActive)
                 => /\ cl'[r].pc = "done"
                    /\ cl'[r].ledgerSaid \in {"inactive", "rpc"}
                    /\ cl'[r].ledgerSaid = "inactive"
                         => cl'[r].resp = ErrorResp(403, "DROP_INACTIVE",
                                                    TDeactivated)
                    /\ cl'[r].ledgerSaid = "rpc" => cl'[r].resp.status = 500
                    /\ ~cl'[r].resp.file
                    /\ cl'[r].ipfsHash = 0
                    /\ cl'[r].encryptedSymKey = << >>
                    /\ ledger' = ledger]_vars

\* the owner's deactivation landed between the read and the transaction of
\* a claim with the right passphrase
C27_Witness ==
    \E r \in Reqs :
        /\ Done(r) /\ RightPassphrase(r)
        /\ cl[r].stage = "tx"
        /\ cl[r].ledgerSaid = "inactive"
        /\ ~ledger[cl[r].dropId].isActive
        /\ ledger[cl[r].dropId].claimCount = 0

\* the passphrases made of WORD_COUNT list words joined by '-', over the
\* draws of the model
SixWordPassphrases ==
    {JoinDash([i \in 1..WORD_COUNT |-> Words[(b[i] % Len(Words)) + 1]]) :
        b \in PassphraseDraws}

SameDropRightPassphrase(r1, r2) ==
    /\ r1 # r2
    /\ Done(r1) /\ Done(r2)
    /\ cl[r1].dropId = cl[r2].dropId
    /\ ledger[cl[r1].dropId].isActive
    /\ \A r \in {r1, r2} :
         /\ RightPassphrase(r)
         /\ cl[r].keyTamper = "none" /\ cl[r].fileTamper = "none"
         /\ cl[r].stage # "fetch"

\* C21: under every interleaving of two claims of the same active drop
\* with the correct passphrase, both are answered 200 with the same
\* plaintext, the one of the upload.
C21_ConcurrentClaimsBothSucceed ==
    \A r1, r2 \in DOMAIN cl :
        SameDropRightPassphrase(r1, r2)
            => /\ cl[r1].resp.status = 200 /\ cl[r2].resp.status = 200
               /\ cl[r1].resp.body = cl[r2].resp.body
               /\ cl[r1].resp.body = Target(r1).plaintext

C30_NoBinDownload ==
    /\ [](/\ \A n \in rx.downloads : ~EndsWith(n, DotBin)
          /\ (rx.got /\ EndsWith(rx.fileName, DotBin))
               => /\ EndsWith(Substring(rx.dropId, 12), DotBin)
                  /\ rx.claimState = "idle"
                  /\ rx.toast = "File type error"
                  /\ rx.fileName \notin rx.downloads
          /\ rx.claimState = "success"
               => rx.got /\ rx.fileName \in rx.downloads)
    /\ [][(rx.claimState = "downloading" /\ rx'.got
              /\ EndsWith(rx'.fileName, DotBin))
            => /\ rx'.downloads = rx.downloads
               /\ rx'.claimState = "idle"
               /\ rx'.toast = "File type error"]_vars

\* a name ending in '.bin' came back from the API client and the page
\* refused it, after another file had been downloaded
C30_Witness ==
    /\ rx.got
    /\ EndsWith(rx.fileName, DotBin)
    /\ rx.claimState = "idle"
    /\ rx.toast = "File type error"
    /\ rx.downloads # {}

====
